---- MODULE Spec2Model ----
(***************************************************************************)
(* Verification model of the equilibrium analysis routines                 *)
(* (equilibrium.py), the TORPEX batch tool (torpex.py) and the hypnotoad   *)
(* GUI handlers (hypnotoad/gui/gui.py).                                    *)
(*                                                                         *)
(* Real coordinates are modelled on integer grids; the results of the      *)
(* scipy routines (minimize_scalar, brentq) are inputs drawn from the      *)
(* values their contracts allow.                                           *)
(***************************************************************************)
EXTENDS Integers, Sequences, FiniteSets, TLC

\* ------------------------------------------------------------------------
\* Bounds of the model
\* ------------------------------------------------------------------------
\* largest number n of expected roots passed to findRoots_1d
MaxN == 2
\* largest maxintervals passed to findRoots_1d
MaxIntervalsBound == 4
\* number of positions brentq can return per finest sampling interval
Sub == 2

\* ------------------------------------------------------------------------
\* State of one call of Equilibrium.findRoots_1d
\* ------------------------------------------------------------------------
VARIABLES
    fr_pc,                  \* position in findRoots_1d
    fr_n,                   \* argument n
    fr_maxintervals,        \* argument maxintervals
    fr_f,                   \* sign of f at the points of the finest grid
    fr_n_intervals,         \* local n_intervals
    fr_interval_f,          \* local interval_f (signs of the samples)
    fr_intervals_with_roots,\* local intervals_with_roots (1-based indices)
    fr_i,                   \* position of the for loop in intervals_with_roots
    fr_roots,               \* local roots
    fr_foundRoots,          \* local foundRoots
    fr_err,                 \* exception that left the call, or "none"
    fr_rounds,              \* number of sampling rounds started
    fr_counted              \* sign changes of the current round were counted

fr_vars == <<fr_pc, fr_n, fr_maxintervals, fr_f, fr_n_intervals, fr_interval_f,
             fr_intervals_with_roots, fr_i, fr_roots, fr_foundRoots, fr_err,
             fr_rounds, fr_counted>>

\* ------------------------------------------------------------------------
\* State of one call of Equilibrium.findExtremum_1d
\* ------------------------------------------------------------------------
VARIABLES
    fe_pc,          \* "idle", "call" or "done"
    fe_rtolInv,     \* 1/rtol
    fe_min,         \* what minimize_scalar reports for psi along the segment
    fe_max,         \* what minimize_scalar reports for -psi along the segment
    fe_out          \* outcome of the call

fe_vars == <<fe_pc, fe_rtolInv, fe_min, fe_max, fe_out>>

\* ------------------------------------------------------------------------
\* State of one call of Equilibrium.findSaddlePoint
\* ------------------------------------------------------------------------
VARIABLES
    sp_pc,              \* position in findSaddlePoint
    sp_atol,            \* argument atol
    sp_posTop, sp_posBottom, sp_posLeft, sp_posRight,
    sp_minTop, sp_minBottom, sp_minLeft, sp_minRight,
    sp_vertSearch,      \* the method bound to vertSearch
    sp_horizSearch,     \* the method bound to horizSearch
    sp_extremumVert, sp_extremumHoriz,
    sp_count,           \* local count, saturating at CountCap
    sp_result,          \* the returned point, or "none"
    sp_err,             \* exception that left the call, or "none"
    sp_fieldV,          \* psi: result of the vertical search on each line R
    sp_fieldH,          \* psi: result of the horizontal search on each line Z
    sp_lastVert,        \* latest result of vertSearch in the loop, or "none"
    sp_lastHoriz,       \* latest result of horizSearch in the loop, or "none"
    sp_vertCall,        \* the latest call of vertSearch: its iteration, its
                        \* method and its arguments pos1, pos2 and atol
    sp_horizCall,       \* the latest call of horizSearch, likewise
    sp_prevVertTol,     \* the atol of the call of vertSearch before that
    sp_prevHorizTol     \* the atol of the call of horizSearch before that

sp_edges == <<sp_posTop, sp_posBottom, sp_posLeft, sp_posRight>>
sp_mins == <<sp_minTop, sp_minBottom, sp_minLeft, sp_minRight>>
sp_searches == <<sp_vertSearch, sp_horizSearch>>
sp_field == <<sp_fieldV, sp_fieldH>>
sp_calls == <<sp_vertCall, sp_horizCall, sp_prevVertTol, sp_prevHorizTol>>
sp_vars == <<sp_pc, sp_atol, sp_edges, sp_mins, sp_searches, sp_extremumVert,
             sp_extremumHoriz, sp_count, sp_result, sp_err, sp_field,
             sp_lastVert, sp_lastHoriz, sp_calls>>

\* ------------------------------------------------------------------------
\* State of one run of the TORPEX batch tool (torpex.py)
\* ------------------------------------------------------------------------
VARIABLES
    tx_pc,                  \* position in the script
    tx_has_x_points,        \* the equilibrium has the attribute x_points
    tx_x_points,            \* equilibrium.x_points
    tx_has_psi_sep,         \* the equilibrium has the attribute psi_sep
    tx_warned,              \* the 'failed to find X-point' warning was issued
    tx_findSeparatrixCalled,\* findSeparatrix was called
    tx_separatrix,          \* equilibrium.separatrix: the four legs
    tx_meshBuilt,           \* Mesh(equilibrium, meshOptions) was constructed
    tx_gridWritten,         \* mesh.writeGridfile wrote the grid file
    tx_err                  \* exception that ended the script, or "none"

tx_vars == <<tx_pc, tx_has_x_points, tx_x_points, tx_has_psi_sep, tx_warned,
             tx_findSeparatrixCalled, tx_separatrix, tx_meshBuilt,
             tx_gridWritten, tx_err>>

\* ------------------------------------------------------------------------
\* State of the hypnotoad GUI (hypnotoad/gui/gui.py)
\* ------------------------------------------------------------------------
VARIABLES
    gui_pc,             \* "idle", or "ready" while the event loop runs
    gui_has_eq,         \* hasattr(self, "eq")
    gui_eq,             \* self.eq: which equilibrium object, read with which
                        \* options
    gui_has_mesh,       \* hasattr(self, "mesh")
    gui_mesh,           \* self.mesh: the equilibrium object it was built from
    gui_options,        \* self.options, as the number of edits made
    gui_write_grid_button,  \* write_grid_button.isEnabled()
    gui_created,        \* number of equilibrium objects created so far
    gui_handler,        \* the handler that ran last
    gui_shown,          \* what the last handler showed to the user
    gui_escaped,        \* exception that escaped the last handler, or "none"
    gui_grid_written    \* mesh.writeGridfile was called

gui_vars == <<gui_pc, gui_has_eq, gui_eq, gui_has_mesh, gui_mesh, gui_options,
              gui_write_grid_button, gui_created, gui_handler, gui_shown,
              gui_escaped, gui_grid_written>>

\* ------------------------------------------------------------------------
\* State of one DCT_2D object and its caller (dct_interpolation.py)
\* ------------------------------------------------------------------------
VARIABLES
    dct_pc,         \* "idle", "new" before DCT_2D(...), then "built" or "failed"
    dct_Rarray,     \* argument Rarray, indexed from 0
    dct_Zarray,     \* argument Zarray, indexed from 0
    dct_psiRZ,      \* argument psiRZ: its shape and its rows
    dct_self,       \* the attributes of the object, NoField while there is none
    dct_err,        \* the exception raised by __init__, or "none"
    dct_last,       \* the last evaluation: method, arguments, index-space
                    \* position and returned value
    dct_evaluates   \* whether the caller goes on to evaluate the field

dct_vars == <<dct_pc, dct_Rarray, dct_Zarray, dct_psiRZ, dct_self, dct_err,
              dct_last, dct_evaluates>>

\* ------------------------------------------------------------------------
\* State of one flux-surface contour (PsiContour) and its caller
\* ------------------------------------------------------------------------
VARIABLES
    ct_pc,          \* "idle", or "ready" once the contour is constructed
    ct_points,      \* the points of the contour, in order
    ct_distance,    \* its distance array
    ct_psi,         \* the flux function the contour refers to
    ct_psival,      \* the value of psi the contour is to lie on
    ct_old,         \* points and distance before the last operation
    ct_last,        \* the last operation, its arguments and how it ended
    ct_new          \* the contour the last operation returned, NoContour
                    \* if none

ct_vars == <<ct_pc, ct_points, ct_distance, ct_psi, ct_psival, ct_old,
             ct_last, ct_new>>

\* ------------------------------------------------------------------------
\* State of one call of create_tokamak (examples/tokamak/tokamak_example.py)
\* ------------------------------------------------------------------------
VARIABLES
    tk_pc,          \* "idle", "call" before the call, "done" after it
    tk_args,        \* the arguments geometry, nx, ny; Omitted if not passed
    tk_result       \* what the call returned or raised

tk_vars == <<tk_pc, tk_args, tk_result>>

\* ------------------------------------------------------------------------
\* State of save_options and save_options_as of the hypnotoad GUI
\* ------------------------------------------------------------------------
VARIABLES
    sv_pc,          \* "idle", "ready" in the event loop, or the position
                    \* inside the handlers
    sv_filename,    \* self.filename
    sv_stack,       \* the calls that wait for a nested call to return
    sv_dialogs,     \* save dialogs shown since the handler was invoked
    sv_writes,      \* times the options file was written since then
    sv_unnamed,     \* the handler was invoked while no file name was chosen
    sv_err          \* exception that ended the handler, or "none"

sv_vars == <<sv_pc, sv_filename, sv_stack, sv_dialogs, sv_writes, sv_unnamed,
             sv_err>>

\* ------------------------------------------------------------------------
\* State of the hypnotoad2 GUI (hypnotoad2/gui/gui.py)
\* ------------------------------------------------------------------------
VARIABLES
    g2_pc,          \* "idle", or "ready" while the event loop runs
    g2_options,     \* self.options: the value of each key, Absent if none
    g2_widgets,     \* the value each widget of the options form displays
    g2_has_eq,      \* hasattr(self, "eq")
    g2_has_mesh,    \* hasattr(self, "mesh")
    g2_write_grid_button,   \* write_grid_button.isEnabled()
    g2_handler,     \* the handler that ran last
    g2_shown,       \* what the last handler showed to the user
    g2_escaped,     \* exception that escaped the last handler, or "none"
    g2_changed      \* the last change of a widget of the options form:
                    \* the option's key, the new value, self.options before

g2_vars == <<g2_pc, g2_options, g2_widgets, g2_has_eq, g2_has_mesh, g2_write_grid_button,
             g2_handler, g2_shown, g2_escaped, g2_changed>>

vars == <<fr_vars, fe_vars, sp_vars, tx_vars, gui_vars, dct_vars, ct_vars,
          tk_vars, sv_vars, g2_vars>>

\* what a call of findRoots_1d leaves alone
FR_Frame ==
    UNCHANGED <<fe_vars, sp_vars, tx_vars, gui_vars, dct_vars, ct_vars,
                tk_vars, sv_vars, g2_vars>>
\* what a call of findExtremum_1d leaves alone
FE_Frame ==
    UNCHANGED <<fr_vars, sp_vars, tx_vars, gui_vars, dct_vars, ct_vars,
                tk_vars, sv_vars, g2_vars>>
\* what a call of findSaddlePoint leaves alone
SP_Frame ==
    UNCHANGED <<fr_vars, fe_vars, tx_vars, gui_vars, dct_vars, ct_vars,
                tk_vars, sv_vars, g2_vars>>
\* what the batch tool leaves alone, outside findSaddlePoint
TX_Frame ==
    UNCHANGED <<fr_vars, fe_vars, gui_vars, dct_vars, ct_vars,
                tk_vars, sv_vars, g2_vars>>
\* what the GUI handlers leave alone
GUI_Frame ==
    UNCHANGED <<fr_vars, fe_vars, sp_vars, tx_vars, dct_vars, ct_vars,
                tk_vars, sv_vars, g2_vars>>
\* what the construction and the evaluations of a DCT_2D leave alone
DCT_Frame ==
    UNCHANGED <<fr_vars, fe_vars, sp_vars, tx_vars, gui_vars, ct_vars,
                tk_vars, sv_vars, g2_vars>>
\* what the operations of a contour leave alone
CT_Frame ==
    UNCHANGED <<fr_vars, fe_vars, sp_vars, tx_vars, gui_vars, dct_vars,
                tk_vars, sv_vars, g2_vars>>
\* what a call of create_tokamak leaves alone
TK_Frame ==
    UNCHANGED <<fr_vars, fe_vars, sp_vars, tx_vars, gui_vars, dct_vars,
                ct_vars, sv_vars, g2_vars>>
\* what save_options and save_options_as leave alone
SV_Frame ==
    UNCHANGED <<fr_vars, fe_vars, sp_vars, tx_vars, gui_vars, dct_vars,
                ct_vars, tk_vars, g2_vars>>
\* what the handlers of the hypnotoad2 GUI leave alone
G2_Frame ==
    UNCHANGED <<fr_vars, fe_vars, sp_vars, tx_vars, gui_vars, dct_vars,
                ct_vars, tk_vars, sv_vars>>

Signs == {-1, 0, 1}

RECURSIVE Finest(_, _)
\* the largest n_intervals the doubling of line 140 reaches without raising
Finest(n, maxintervals) ==
    IF 2 * n > maxintervals THEN n ELSE Finest(2 * n, maxintervals)

\* numpy.linspace(xmin, xmax, n_intervals+1): the points of the sampling
\* round as positions 0 .. Finest*Sub, point k (0-based) of n_intervals
linspace(n_intervals, k) ==
    k * ((Finest(fr_n, fr_maxintervals) \div n_intervals) * Sub)

\* f(interval_points): the sign of f at the n_intervals+1 sampled points,
\* as a 1-based sequence
SampleF(n_intervals) ==
    [k \in 1..(n_intervals + 1) |->
        fr_f[(k - 1) * (Finest(fr_n, fr_maxintervals) \div n_intervals)]]

\* numpy.where(interval_f == 0.): the samples that are exactly zero
LuckyRootsBug(interval_f) == {}
lucky_roots(interval_f) == {k \in 1..Len(interval_f) : interval_f[k] = 0}

RECURSIVE WhereFrom(_, _)
\* the indices i >= k with sign(interval_f[i]) != sign(interval_f[i+1]),
\* in ascending order
WhereFrom(interval_f, k) ==
    IF k >= Len(interval_f) THEN <<>>
    ELSE IF interval_f[k] # interval_f[k + 1]
         THEN <<k>> \o WhereFrom(interval_f, k + 1)
         ELSE WhereFrom(interval_f, k + 1)

\* numpy.where(numpy.sign(interval_f[:-1]) != numpy.sign(interval_f[1:]))[0]
SignChanges(interval_f) == WhereFrom(interval_f, 1)

FR_Start ==
    /\ fr_pc = "sample"
    /\ fr_n \in 1..MaxN
    /\ fr_maxintervals \in fr_n..MaxIntervalsBound
    /\ fr_f \in [0..Finest(fr_n, fr_maxintervals) -> Signs]
    /\ fr_n_intervals = fr_n
    /\ fr_interval_f = <<>>
    /\ fr_intervals_with_roots = <<>>
    /\ fr_i = 1
    /\ fr_roots = <<>>
    /\ fr_foundRoots = 0
    /\ fr_err = "none"
    /\ fr_rounds = 0
    /\ fr_counted = FALSE

\* lines 130-131: sample f on n_intervals+1 points
FR_Sample ==
    /\ FR_Frame
    /\ fr_pc = "sample"
    /\ fr_interval_f' = SampleF(fr_n_intervals)
    /\ fr_rounds' = fr_rounds + 1
    /\ fr_counted' = FALSE
    /\ fr_pc' = "lucky"
    /\ UNCHANGED <<fr_n, fr_maxintervals, fr_f, fr_n_intervals,
                   fr_intervals_with_roots, fr_i, fr_roots, fr_foundRoots,
                   fr_err>>

\* lines 132-135: a sample that is exactly zero is not handled
FR_LuckyCheck ==
    /\ FR_Frame
    /\ fr_pc = "lucky"
    /\ IF lucky_roots(fr_interval_f) # {}
       THEN /\ fr_pc' = "raised"
            /\ fr_err' = "NotImplementedError"
       ELSE /\ fr_pc' = "count"
            /\ fr_err' = fr_err
    /\ UNCHANGED <<fr_n, fr_maxintervals, fr_f, fr_n_intervals, fr_interval_f,
                   fr_intervals_with_roots, fr_i, fr_roots, fr_foundRoots,
                   fr_rounds, fr_counted>>

\* line 140: n_intervals *= 2
DoubleBug(n_intervals) == n_intervals + 1
Double(n_intervals) == 2 * n_intervals

\* line 138: enough sign changes to leave the sampling loop
Enough(found, n) == found >= n

\* lines 136-143: count the sign changes; leave the loop, or double
\* n_intervals and either resample or give up
FR_Count ==
    /\ FR_Frame
    /\ fr_pc = "count"
    /\ fr_intervals_with_roots' = SignChanges(fr_interval_f)
    /\ fr_counted' = TRUE
    /\ IF Enough(Len(SignChanges(fr_interval_f)), fr_n)
       THEN /\ fr_pc' = "brentq"
            /\ fr_i' = 1
            /\ UNCHANGED <<fr_n_intervals, fr_err>>
       ELSE /\ fr_n_intervals' = Double(fr_n_intervals)
            /\ fr_i' = fr_i
            /\ IF Double(fr_n_intervals) > fr_maxintervals
               THEN /\ fr_pc' = "raised"
                    /\ fr_err' = "ValueError"
               ELSE /\ fr_pc' = "sample"
                    /\ fr_err' = fr_err
    /\ UNCHANGED <<fr_n, fr_maxintervals, fr_f, fr_interval_f, fr_roots,
                   fr_foundRoots, fr_rounds>>

\* brentq(f, a, b, xtol=atol, full_output=True): a converged search returns
\* a point of the bracket [a, b]
BrentqBug(a, b) == a..(b + 1)
brentq(a, b) == a..b

\* lines 146-154: one pass of the for loop over intervals_with_roots
FR_Brentq ==
    /\ FR_Frame
    /\ fr_pc = "brentq"
    /\ fr_i <= Len(fr_intervals_with_roots)
    /\ LET i == fr_intervals_with_roots[fr_i]
           a == linspace(fr_n_intervals, i - 1)
           b == linspace(fr_n_intervals, i)
       IN \/ \E root \in brentq(a, b) :
                /\ fr_roots' = Append(fr_roots, root)
                /\ fr_foundRoots' = fr_foundRoots + 1
                /\ fr_i' = fr_i + 1
                /\ UNCHANGED <<fr_pc, fr_err>>
          \/ \* info.converged is False (lines 149-152), or brentq itself
             \* raised because the search did not converge
             \E e \in {"ValueError", "RuntimeError"} :
                /\ fr_pc' = "raised"
                /\ fr_err' = e
                /\ UNCHANGED <<fr_roots, fr_foundRoots, fr_i>>
    /\ UNCHANGED <<fr_n, fr_maxintervals, fr_f, fr_n_intervals, fr_interval_f,
                   fr_intervals_with_roots, fr_rounds, fr_counted>>

\* warnings.warn('Warning: found', foundRoots, 'roots but expected only', n):
\* the second positional argument of warnings.warn is the warning category,
\* here the integer foundRoots, which warnings.warn rejects with a TypeError
WarnOutcome(foundRoots, n) == "TypeError"

\* lines 156-159: after the for loop, warn about surplus roots and return
FR_Finish ==
    /\ FR_Frame
    /\ fr_pc = "brentq"
    /\ fr_i > Len(fr_intervals_with_roots)
    /\ IF fr_foundRoots > fr_n
       THEN /\ fr_pc' = "raised"
            /\ fr_err' = WarnOutcome(fr_foundRoots, fr_n)
       ELSE /\ fr_pc' = "returned"
            /\ fr_err' = fr_err
    /\ UNCHANGED <<fr_n, fr_maxintervals, fr_f, fr_n_intervals, fr_interval_f,
                   fr_intervals_with_roots, fr_i, fr_roots, fr_foundRoots,
                   fr_rounds, fr_counted>>

FR_Next == FR_Sample \/ FR_LuckyCheck \/ FR_Count \/ FR_Brentq \/ FR_Finish


\* ------------------------------------------------------------------------
\* Equilibrium.findMinimum_1d, findMaximum_1d, findExtremum_1d
\* ------------------------------------------------------------------------
\* number of grid steps of the segment searched by findExtremum_1d
SegLen == 24
\* default of the argument rtol of findExtremum_1d, as 1/rtol
RtolInvDefault == 100000
\* factor of smallDistance = 10.*rtol*calc_distance(pos1, pos2)
SmallFactor == 10

Point2D(R, Z) == [R |-> R, Z |-> Z]
\* stands for a point that was never assigned
NoPoint == Point2D(-1, -1)

\* coords = lambda s: pos1 + s*(pos2-pos1), at s = x/N
coords(pos1, pos2, x, N) ==
    Point2D(pos1.R + (x * (pos2.R - pos1.R)) \div N,
            pos1.Z + (x * (pos2.Z - pos1.Z)) \div N)

\* what minimize_scalar(..., method='bounded', bounds=(0., 1.)) can report
\* on a segment of N grid steps: a failure, or success at s = x/N
MinimizeResults(N) ==
    {[success |-> FALSE, x |-> 0]} \cup [success : {TRUE}, x : 0..N]

\* findMinimum_1d: result is the OptimizeResult for psi along the segment
findMinimum_1d(pos1, pos2, result, N) ==
    IF result.success
    THEN [raised |-> FALSE, pos |-> coords(pos1, pos2, result.x, N)]
    ELSE [raised |-> TRUE, pos |-> NoPoint]

\* findMaximum_1d: result is the OptimizeResult for -psi along the segment
findMaximum_1d(pos1, pos2, result, N) ==
    IF result.success
    THEN [raised |-> FALSE, pos |-> coords(pos1, pos2, result.x, N)]
    ELSE [raised |-> TRUE, pos |-> NoPoint]

\* calc_distance(pos1, p) > smallDistance and calc_distance(pos2, p) >
\* smallDistance for p = coords(x/N) on a segment of positive length:
\* the distances are (x/N)*|pos2-pos1| and ((N-x)/N)*|pos2-pos1|, and
\* smallDistance is 10*rtol*|pos2-pos1|
FarFromEndsBug(x, N, rtolInv) ==
    x * rtolInv > N /\ (N - x) * rtolInv > N
FarFromEnds(x, N, rtolInv) ==
    x * rtolInv > SmallFactor * N /\ (N - x) * rtolInv > SmallFactor * N

\* findExtremum_1d(pos1, pos2, rtol): minres and maxres are what the
\* minimiser and the maximiser report when they are run
findExtremum_1d(pos1, pos2, rtolInv, minres, maxres, N) ==
    LET minpos == findMinimum_1d(pos1, pos2, minres, N)
        maxpos == findMaximum_1d(pos1, pos2, maxres, N)
    IN  IF minpos.raised
        THEN [raised |-> TRUE, err |-> "ValueError",
              msg |-> "findMinimum_1d failed",
              pos |-> NoPoint, isMin |-> FALSE, ranMax |-> FALSE]
        ELSE IF FarFromEnds(minres.x, N, rtolInv)
        THEN [raised |-> FALSE, err |-> "none", msg |-> "",
              pos |-> minpos.pos, isMin |-> TRUE, ranMax |-> FALSE]
        ELSE IF maxpos.raised
        THEN [raised |-> TRUE, err |-> "ValueError",
              msg |-> "findMaximum_1d failed",
              pos |-> NoPoint, isMin |-> FALSE, ranMax |-> TRUE]
        ELSE IF FarFromEnds(maxres.x, N, rtolInv)
        THEN [raised |-> FALSE, err |-> "none", msg |-> "",
              pos |-> maxpos.pos, isMin |-> FALSE, ranMax |-> TRUE]
        ELSE [raised |-> TRUE, err |-> "ValueError",
              msg |-> "Neither minimum nor maximum found in interval",
              pos |-> NoPoint, isMin |-> FALSE, ranMax |-> TRUE]

NoOutcome ==
    [raised |-> FALSE, err |-> "none", msg |-> "", pos |-> NoPoint,
     isMin |-> FALSE, ranMax |-> FALSE]

\* the segment searched in the calls of findExtremum_1d checked on their own
fe_pos1 == Point2D(0, 0)
fe_pos2 == Point2D(SegLen, 0)

\* values of 1/rtol for which rtol*|pos2-pos1| is one or two grid steps
RtolInvChoices == {SegLen, SegLen \div 2}

FE_Start ==
    /\ fe_pc = "call"
    /\ fe_rtolInv \in RtolInvChoices
    /\ fe_min \in MinimizeResults(SegLen)
    /\ fe_max \in MinimizeResults(SegLen)
    /\ fe_out = NoOutcome

FE_Idle ==
    /\ fe_pc = "idle"
    /\ fe_rtolInv = RtolInvDefault
    /\ fe_min = [success |-> FALSE, x |-> 0]
    /\ fe_max = [success |-> FALSE, x |-> 0]
    /\ fe_out = NoOutcome

\* one call findExtremum_1d(pos1, pos2, rtol)
FE_Call ==
    /\ FE_Frame
    /\ fe_pc = "call"
    /\ fe_out' = findExtremum_1d(fe_pos1, fe_pos2, fe_rtolInv, fe_min, fe_max,
                                 SegLen)
    /\ fe_pc' = "done"
    /\ UNCHANGED <<fe_rtolInv, fe_min, fe_max>>

FE_Next == FE_Call


\* ------------------------------------------------------------------------
\* Equilibrium.findSaddlePoint
\* ------------------------------------------------------------------------
\* grid steps of the search box along R and along Z
RN == 3
ZN == 2
\* divisor of the returned midpoint (extremumVert+extremumHoriz)/2.
Half == 2
\* a tolerance below every distance between distinct search results
AtolTight == 1
\* value at which the model stops counting iterations
CountCap == 3

\* coordinate units per grid step, chosen so that every point the searches
\* can return and every midpoint has integer coordinates
ZU == Half
RU == Half * ZN

\* the arguments Rmin, Rmax, Zmin, Zmax
Box == [Rmin |-> 0, Rmax |-> RN * RU, Zmin |-> 0, Zmax |-> ZN * ZU]

\* a tolerance not smaller than the diagonal of the box
AtolWide == Box.Rmax + Box.Zmax
\* a tolerance of one grid step along R
AtolStep == RU

\* psi enters through the results of the line searches: one result per
\* searched line, not known before the line is first searched
Unknown == [known |-> FALSE, success |-> FALSE, x |-> 0]
Known(result) ==
    [known |-> TRUE, success |-> result.success, x |-> result.x]
Result(entry) == [success |-> entry.success, x |-> entry.x]

\* the results minimize_scalar can give on the line with this entry
FieldResults(entry, N) ==
    IF entry.known THEN {Result(entry)} ELSE MinimizeResults(N)

\* a tolerance num/den; NoTol stands for none
NoTol == [num |-> 0, den |-> 1]
\* no call of a line search was made yet
NoSearch == [iter |-> 0, method |-> "unbound", pos1 |-> NoPoint,
             pos2 |-> NoPoint, atol |-> NoTol]

SP_Start ==
    /\ sp_pc = "top"
    /\ sp_atol \in {AtolTight, AtolStep, AtolWide}
    /\ sp_posTop = NoPoint /\ sp_posBottom = NoPoint
    /\ sp_posLeft = NoPoint /\ sp_posRight = NoPoint
    /\ sp_minTop = FALSE /\ sp_minBottom = FALSE
    /\ sp_minLeft = FALSE /\ sp_minRight = FALSE
    /\ sp_vertSearch = "unbound" /\ sp_horizSearch = "unbound"
    /\ sp_extremumVert = NoPoint /\ sp_extremumHoriz = NoPoint
    /\ sp_count = 0
    /\ sp_result = NoPoint
    /\ sp_err = "none"
    /\ sp_fieldV = [k \in (0..RN) \X (0..RN) |-> Unknown]
    /\ sp_fieldH = [k \in 0..ZN |-> Unknown]
    /\ sp_lastVert = NoPoint /\ sp_lastHoriz = NoPoint
    /\ sp_vertCall = NoSearch /\ sp_horizCall = NoSearch
    /\ sp_prevVertTol = NoTol /\ sp_prevHorizTol = NoTol

SP_Idle ==
    /\ sp_pc = "idle"
    /\ sp_atol = AtolTight
    /\ sp_posTop = NoPoint /\ sp_posBottom = NoPoint
    /\ sp_posLeft = NoPoint /\ sp_posRight = NoPoint
    /\ sp_minTop = FALSE /\ sp_minBottom = FALSE
    /\ sp_minLeft = FALSE /\ sp_minRight = FALSE
    /\ sp_vertSearch = "unbound" /\ sp_horizSearch = "unbound"
    /\ sp_extremumVert = NoPoint /\ sp_extremumHoriz = NoPoint
    /\ sp_count = 0
    /\ sp_result = NoPoint
    /\ sp_err = "none"
    /\ sp_fieldV = [k \in (0..RN) \X (0..RN) |-> Unknown]
    /\ sp_fieldH = [k \in 0..ZN |-> Unknown]
    /\ sp_lastVert = NoPoint /\ sp_lastHoriz = NoPoint
    /\ sp_vertCall = NoSearch /\ sp_horizCall = NoSearch
    /\ sp_prevVertTol = NoTol /\ sp_prevHorizTol = NoTol

\* line 81: posTop, minTop = findExtremum_1d((Rmin, Zmax), (Rmax, Zmax))
SP_Top ==
    /\ SP_Frame
    /\ UNCHANGED sp_calls
    /\ sp_pc = "top"
    /\ \E mn \in MinimizeResults(RN), mx \in MinimizeResults(RN) :
          LET r == findExtremum_1d(Point2D(Box.Rmin, Box.Zmax),
                                   Point2D(Box.Rmax, Box.Zmax),
                                   RtolInvDefault, mn, mx, RN)
          IN  IF r.raised
              THEN /\ sp_pc' = "raised"
                   /\ sp_err' = r.err
                   /\ UNCHANGED <<sp_posTop, sp_minTop>>
              ELSE /\ sp_pc' = "bottom"
                   /\ sp_posTop' = r.pos
                   /\ sp_minTop' = r.isMin
                   /\ sp_err' = sp_err
    /\ UNCHANGED <<sp_atol, sp_posBottom, sp_posLeft, sp_posRight,
                   sp_minBottom, sp_minLeft, sp_minRight, sp_searches,
                   sp_extremumVert, sp_extremumHoriz, sp_count, sp_result,
                   sp_field, sp_lastVert, sp_lastHoriz>>

\* line 82: posBottom, minBottom = findExtremum_1d((Rmin, Zmin), (Rmax, Zmin))
SP_Bottom ==
    /\ SP_Frame
    /\ UNCHANGED sp_calls
    /\ sp_pc = "bottom"
    /\ \E mn \in MinimizeResults(RN), mx \in MinimizeResults(RN) :
          LET r == findExtremum_1d(Point2D(Box.Rmin, Box.Zmin),
                                   Point2D(Box.Rmax, Box.Zmin),
                                   RtolInvDefault, mn, mx, RN)
          IN  IF r.raised
              THEN /\ sp_pc' = "raised"
                   /\ sp_err' = r.err
                   /\ UNCHANGED <<sp_posBottom, sp_minBottom>>
              ELSE /\ sp_pc' = "left"
                   /\ sp_posBottom' = r.pos
                   /\ sp_minBottom' = r.isMin
                   /\ sp_err' = sp_err
    /\ UNCHANGED <<sp_atol, sp_posTop, sp_posLeft, sp_posRight,
                   sp_minTop, sp_minLeft, sp_minRight, sp_searches,
                   sp_extremumVert, sp_extremumHoriz, sp_count, sp_result,
                   sp_field, sp_lastVert, sp_lastHoriz>>

\* line 83: posLeft, minLeft = findExtremum_1d((Rmin, Zmin), (Rmin, Zmax))
SP_Left ==
    /\ SP_Frame
    /\ UNCHANGED sp_calls
    /\ sp_pc = "left"
    /\ \E mn \in MinimizeResults(ZN), mx \in MinimizeResults(ZN) :
          LET r == findExtremum_1d(Point2D(Box.Rmin, Box.Zmin),
                                   Point2D(Box.Rmin, Box.Zmax),
                                   RtolInvDefault, mn, mx, ZN)
          IN  IF r.raised
              THEN /\ sp_pc' = "raised"
                   /\ sp_err' = r.err
                   /\ UNCHANGED <<sp_posLeft, sp_minLeft>>
              ELSE /\ sp_pc' = "right"
                   /\ sp_posLeft' = r.pos
                   /\ sp_minLeft' = r.isMin
                   /\ sp_err' = sp_err
    /\ UNCHANGED <<sp_atol, sp_posTop, sp_posBottom, sp_posRight,
                   sp_minTop, sp_minBottom, sp_minRight, sp_searches,
                   sp_extremumVert, sp_extremumHoriz, sp_count, sp_result,
                   sp_field, sp_lastVert, sp_lastHoriz>>

\* line 84: posRight, minRight = findExtremum_1d((Rmax, Zmin), (Rmax, Zmax))
SP_Right ==
    /\ SP_Frame
    /\ UNCHANGED sp_calls
    /\ sp_pc = "right"
    /\ \E mn \in MinimizeResults(ZN), mx \in MinimizeResults(ZN) :
          LET r == findExtremum_1d(Point2D(Box.Rmax, Box.Zmin),
                                   Point2D(Box.Rmax, Box.Zmax),
                                   RtolInvDefault, mn, mx, ZN)
          IN  IF r.raised
              THEN /\ sp_pc' = "raised"
                   /\ sp_err' = r.err
                   /\ UNCHANGED <<sp_posRight, sp_minRight>>
              ELSE /\ sp_pc' = "assert"
                   /\ sp_posRight' = r.pos
                   /\ sp_minRight' = r.isMin
                   /\ sp_err' = sp_err
    /\ UNCHANGED <<sp_atol, sp_posTop, sp_posBottom, sp_posLeft,
                   sp_minTop, sp_minBottom, sp_minLeft, sp_searches,
                   sp_extremumVert, sp_extremumHoriz, sp_count, sp_result,
                   sp_field, sp_lastVert, sp_lastHoriz>>

\* lines 86-88: the three assertions on the classification of the edges
SaddleSignatureBug(minTop, minBottom, minLeft, minRight) ==
    /\ minTop = minBottom
    /\ minLeft = minRight
SaddleSignature(minTop, minBottom, minLeft, minRight) ==
    /\ minTop = minBottom
    /\ minLeft = minRight
    /\ minTop # minLeft

SearchForBug(isMin) ==
    IF isMin THEN "findMinimum_1d" ELSE "findMaximum_1d"
\* lines 90-98: the search bound when the pair of edges was classified as
\* minimum (isMin) or as maximum
SearchFor(isMin) == IF isMin THEN "findMaximum_1d" ELSE "findMinimum_1d"

\* lines 86-101: check the assertions, bind vertSearch and horizSearch,
\* set the first two estimates to opposite corners of the box
SP_Assert ==
    /\ SP_Frame
    /\ UNCHANGED sp_calls
    /\ sp_pc = "assert"
    /\ IF SaddleSignature(sp_minTop, sp_minBottom, sp_minLeft, sp_minRight)
       THEN /\ sp_vertSearch' = SearchFor(sp_minTop)
            /\ sp_horizSearch' = SearchFor(sp_minLeft)
            /\ sp_extremumVert' = Point2D(Box.Rmin, Box.Zmin)
            /\ sp_extremumHoriz' = Point2D(Box.Rmax, Box.Zmax)
            /\ sp_count' = 0
            /\ sp_pc' = "while"
            /\ sp_err' = sp_err
       ELSE /\ sp_pc' = "raised"
            /\ sp_err' = "AssertionError"
            /\ UNCHANGED <<sp_searches, sp_extremumVert, sp_extremumHoriz,
                           sp_count>>
    /\ UNCHANGED <<sp_atol, sp_edges, sp_mins, sp_result, sp_field,
                   sp_lastVert, sp_lastHoriz>>

\* calc_distance(p, q) > atol, compared on the squares
DistSq(p, q) == (p.R - q.R) * (p.R - q.R) + (p.Z - q.Z) * (p.Z - q.Z)
Farther(p, q, atol) == DistSq(p, q) > atol * atol

\* lines 104-105: the test of the while loop, and count = count+1
SP_While ==
    /\ SP_Frame
    /\ UNCHANGED sp_calls
    /\ sp_pc = "while"
    /\ IF Farther(sp_extremumVert, sp_extremumHoriz, sp_atol)
       THEN /\ sp_count' = (IF sp_count < CountCap THEN sp_count + 1
                                                  ELSE sp_count)
            /\ sp_pc' = "vert"
       ELSE /\ sp_count' = sp_count
            /\ sp_pc' = "return"
    /\ UNCHANGED <<sp_atol, sp_edges, sp_mins, sp_searches, sp_extremumVert,
                   sp_extremumHoriz, sp_result, sp_err, sp_field,
                   sp_lastVert, sp_lastHoriz>>

\* the bound method called through vertSearch or horizSearch
LineSearch(method, pos1, pos2, result, N) ==
    IF method = "findMaximum_1d"
    THEN findMaximum_1d(pos1, pos2, result, N)
    ELSE findMinimum_1d(pos1, pos2, result, N)

SearchTolBug(atol, count) == [num |-> atol, den |-> 2 ^ count]
\* lines 107, 111: the tolerance 0.5*atol passed to the line search of
\* iteration count
SearchTol(atol, count) == [num |-> atol, den |-> 2]

\* the record of one call of a line search
Search(iter, method, pos1, pos2, atol) ==
    [iter |-> iter, method |-> method, pos1 |-> pos1, pos2 |-> pos2,
     atol |-> atol]

ClampZBug(pos, extremum) == extremum
\* lines 108-109: pos.Z = extremum.Z
ClampZ(pos, extremum) == [pos EXCEPT !.Z = extremum.Z]
\* lines 112-113: pos.R = extremum.R
ClampR(pos, extremum) == [pos EXCEPT !.R = extremum.R]

\* lines 107-109: extremumVert = vertSearch(posBottom, posTop, 0.5*atol);
\* posLeft.Z = posRight.Z = extremumVert.Z
SP_Vert ==
    /\ SP_Frame
    /\ sp_pc = "vert"
    /\ LET key == <<sp_posBottom.R \div RU, sp_posTop.R \div RU>>
       IN \E result \in FieldResults(sp_fieldV[key], ZN) :
            LET s == LineSearch(sp_vertSearch, sp_posBottom, sp_posTop,
                                result, ZN)
            IN  /\ sp_fieldV' = [sp_fieldV EXCEPT ![key] = Known(result)]
                /\ sp_vertCall' = Search(sp_count, sp_vertSearch,
                                         sp_posBottom, sp_posTop,
                                         SearchTol(sp_atol, sp_count))
                /\ sp_prevVertTol' = sp_vertCall.atol
                /\ IF s.raised
                   THEN /\ sp_pc' = "raised"
                        /\ sp_err' = "ValueError"
                        /\ UNCHANGED <<sp_extremumVert, sp_posLeft,
                                       sp_posRight, sp_lastVert>>
                   ELSE /\ sp_extremumVert' = s.pos
                        /\ sp_lastVert' = s.pos
                        /\ sp_posLeft' = ClampZ(sp_posLeft, s.pos)
                        /\ sp_posRight' = ClampZ(sp_posRight, s.pos)
                        /\ sp_pc' = "horiz"
                        /\ sp_err' = sp_err
    /\ UNCHANGED <<sp_atol, sp_posTop, sp_posBottom, sp_mins, sp_searches,
                   sp_extremumHoriz, sp_count, sp_result, sp_fieldH,
                   sp_lastHoriz, sp_horizCall, sp_prevHorizTol>>

\* lines 111-113: extremumHoriz = horizSearch(posLeft, posRight, 0.5*atol);
\* posBottom.R = posTop.R = extremumHoriz.R
SP_Horiz ==
    /\ SP_Frame
    /\ sp_pc = "horiz"
    /\ LET key == sp_posLeft.Z \div ZU
       IN \E result \in FieldResults(sp_fieldH[key], RN) :
            LET s == LineSearch(sp_horizSearch, sp_posLeft, sp_posRight,
                                result, RN)
            IN  /\ sp_fieldH' = [sp_fieldH EXCEPT ![key] = Known(result)]
                /\ sp_horizCall' = Search(sp_count, sp_horizSearch,
                                          sp_posLeft, sp_posRight,
                                          SearchTol(sp_atol, sp_count))
                /\ sp_prevHorizTol' = sp_horizCall.atol
                /\ IF s.raised
                   THEN /\ sp_pc' = "raised"
                        /\ sp_err' = "ValueError"
                        /\ UNCHANGED <<sp_extremumHoriz, sp_posBottom,
                                       sp_posTop, sp_lastHoriz>>
                   ELSE /\ sp_extremumHoriz' = s.pos
                        /\ sp_lastHoriz' = s.pos
                        /\ sp_posBottom' = ClampR(sp_posBottom, s.pos)
                        /\ sp_posTop' = ClampR(sp_posTop, s.pos)
                        /\ sp_pc' = "while"
                        /\ sp_err' = sp_err
    /\ UNCHANGED <<sp_atol, sp_posLeft, sp_posRight, sp_mins, sp_searches,
                   sp_extremumVert, sp_count, sp_result, sp_fieldV,
                   sp_lastVert, sp_vertCall, sp_prevVertTol>>

MidpointSum(p, q) == Point2D(p.R + q.R, p.Z + q.Z)
\* (extremumVert+extremumHoriz)/2.
MidpointBug(p, q) == p
Midpoint(p, q) == Point2D((p.R + q.R) \div Half, (p.Z + q.Z) \div Half)

\* lines 115-117: return (extremumVert+extremumHoriz)/2.
SP_Return ==
    /\ SP_Frame
    /\ UNCHANGED sp_calls
    /\ sp_pc = "return"
    /\ sp_result' = Midpoint(sp_extremumVert, sp_extremumHoriz)
    /\ sp_pc' = "returned"
    /\ UNCHANGED <<sp_atol, sp_edges, sp_mins, sp_searches, sp_extremumVert,
                   sp_extremumHoriz, sp_count, sp_err, sp_field,
                   sp_lastVert, sp_lastHoriz>>

SP_Next ==
    \/ SP_Top \/ SP_Bottom \/ SP_Left \/ SP_Right \/ SP_Assert
    \/ SP_While \/ SP_Vert \/ SP_Horiz \/ SP_Return

\* ------------------------------------------------------------------------
\* The TORPEX batch tool: createMesh and the script body of torpex.py
\* ------------------------------------------------------------------------
\* the calls into modules outside this file (parseInput's yaml, mesh.Mesh,
\* SeparatrixContour) either complete or raise
Completes == BOOLEAN

TX_Start ==
    /\ tx_pc = "parseInput"
    /\ tx_has_x_points = FALSE
    /\ tx_x_points = <<>>
    /\ tx_has_psi_sep = FALSE
    /\ tx_warned = FALSE
    /\ tx_findSeparatrixCalled = FALSE
    /\ tx_separatrix = <<>>
    /\ tx_meshBuilt = FALSE
    /\ tx_gridWritten = FALSE
    /\ tx_err = "none"

TX_Idle ==
    /\ tx_pc = "idle"
    /\ tx_has_x_points = FALSE
    /\ tx_x_points = <<>>
    /\ tx_has_psi_sep = FALSE
    /\ tx_warned = FALSE
    /\ tx_findSeparatrixCalled = FALSE
    /\ tx_separatrix = <<>>
    /\ tx_meshBuilt = FALSE
    /\ tx_gridWritten = FALSE
    /\ tx_err = "none"

\* line 192: coils, Bt_axis, meshOptions = parseInput(filename)
TX_ParseInput ==
    /\ TX_Frame
    /\ tx_pc = "parseInput"
    /\ \E ok \in Completes :
          IF ok THEN tx_pc' = "__init__" /\ tx_err' = tx_err
                ELSE tx_pc' = "aborted" /\ tx_err' = "Exception"
    /\ UNCHANGED <<sp_vars, tx_has_x_points, tx_x_points, tx_has_psi_sep,
                   tx_warned, tx_findSeparatrixCalled, tx_separatrix,
                   tx_meshBuilt, tx_gridWritten>>

\* lines 194, 39-48: TORPEXMagneticField.__init__ up to the call
\* self.findSaddlePoint(self.Rmin+0.05, self.Rmax-0.05, 0.8*self.Zmin,
\* 0.8*self.Zmax) inside the try block, with the default atol
TX_Construct ==
    /\ TX_Frame
    /\ tx_pc = "__init__"
    /\ tx_pc' = "findSaddlePoint"
    /\ sp_pc' = "top"
    /\ sp_atol' = AtolTight
    /\ UNCHANGED sp_calls
    /\ UNCHANGED <<sp_edges, sp_mins, sp_searches, sp_extremumVert,
                   sp_extremumHoriz, sp_count, sp_result, sp_err, sp_field,
                   sp_lastVert, sp_lastHoriz>>
    /\ UNCHANGED <<tx_has_x_points, tx_x_points, tx_has_psi_sep, tx_warned,
                   tx_findSeparatrixCalled, tx_separatrix, tx_meshBuilt,
                   tx_gridWritten, tx_err>>

\* the call of findSaddlePoint is over: its outcome stays, its local
\* variables are gone
SP_FrameLeft ==
    /\ UNCHANGED <<sp_pc, sp_atol, sp_result, sp_err>>
    /\ sp_posTop' = NoPoint /\ sp_posBottom' = NoPoint
    /\ sp_posLeft' = NoPoint /\ sp_posRight' = NoPoint
    /\ sp_minTop' = FALSE /\ sp_minBottom' = FALSE
    /\ sp_minLeft' = FALSE /\ sp_minRight' = FALSE
    /\ sp_vertSearch' = "unbound" /\ sp_horizSearch' = "unbound"
    /\ sp_extremumVert' = NoPoint /\ sp_extremumHoriz' = NoPoint
    /\ sp_count' = 0
    /\ sp_fieldV' = [k \in (0..RN) \X (0..RN) |-> Unknown]
    /\ sp_fieldH' = [k \in 0..ZN |-> Unknown]
    /\ sp_lastVert' = NoPoint /\ sp_lastHoriz' = NoPoint
    /\ sp_vertCall' = NoSearch /\ sp_horizCall' = NoSearch
    /\ sp_prevVertTol' = NoTol /\ sp_prevHorizTol' = NoTol

\* lines 46-52: the rest of the try block and its bare except clause.
\* When findSaddlePoint returned, x_points is assigned and psi is evaluated
\* at the X-point for psi_sep; any exception in the block only issues the
\* warning and assigns nothing
TX_TryExcept ==
    /\ TX_Frame
    /\ tx_pc = "findSaddlePoint"
    /\ sp_pc \in {"returned", "raised"}
    /\ IF sp_pc = "returned"
       THEN /\ tx_has_x_points' = TRUE
            /\ tx_x_points' = <<sp_result>>
            /\ \E psi_ok \in Completes :
                  /\ tx_has_psi_sep' = psi_ok
                  /\ tx_warned' = ~psi_ok
       ELSE /\ tx_warned' = TRUE
            /\ UNCHANGED <<tx_has_x_points, tx_x_points, tx_has_psi_sep>>
    /\ tx_pc' = "print"
    /\ SP_FrameLeft
    /\ UNCHANGED <<tx_findSeparatrixCalled, tx_separatrix, tx_meshBuilt,
                   tx_gridWritten, tx_err>>

\* reading equilibrium.x_points[0] and equilibrium.psi_sep[0] needs both
\* attributes: an attribute that was never assigned raises AttributeError
HasXPointBug(has_x_points, has_psi_sep) == TRUE
HasXPoint(has_x_points, has_psi_sep) == has_x_points /\ has_psi_sep

\* line 196: print('X-point', equilibrium.x_points[0], 'with psi=' +
\* str(equilibrium.psi_sep[0]))
TX_Print ==
    /\ TX_Frame
    /\ tx_pc = "print"
    /\ IF HasXPoint(tx_has_x_points, tx_has_psi_sep)
       THEN tx_pc' = "findSeparatrix" /\ tx_err' = tx_err
       ELSE tx_pc' = "aborted" /\ tx_err' = "AttributeError"
    /\ UNCHANGED <<sp_vars, tx_has_x_points, tx_x_points, tx_has_psi_sep,
                   tx_warned, tx_findSeparatrixCalled, tx_separatrix,
                   tx_meshBuilt, tx_gridWritten>>

\* how findRoots_1d(f, 4, 0., 1.) can end: with the 4 expected roots, or
\* with one of its exceptions
FindRootsEnds ==
    {"returned", "NotImplementedError", "ValueError", "RuntimeError",
     "TypeError"}

\* lines 136-177: the four legs, clockwise from the lower left one, each
\* with the root of the wall function it ends at, whether it was reversed,
\* and how often the X-point was appended to xPointsAtStart and xPointsAtEnd
Legs ==
    <<[boundary |-> 3, reversed |-> TRUE,  xPointsAtStart |-> 0,
       xPointsAtEnd |-> 2],
      [boundary |-> 2, reversed |-> FALSE, xPointsAtStart |-> 2,
       xPointsAtEnd |-> 0],
      [boundary |-> 1, reversed |-> TRUE,  xPointsAtStart |-> 0,
       xPointsAtEnd |-> 1],
      [boundary |-> 4, reversed |-> FALSE, xPointsAtStart |-> 1,
       xPointsAtEnd |-> 0]>>

\* line 198, lines 121-177: equilibrium.findSeparatrix()
TX_FindSeparatrix ==
    /\ TX_Frame
    /\ tx_pc = "findSeparatrix"
    /\ tx_findSeparatrixCalled' = TRUE
    /\ IF ~(tx_has_x_points /\ tx_has_psi_sep)
       THEN /\ tx_pc' = "aborted"
            /\ tx_err' = "AttributeError"
            /\ UNCHANGED tx_separatrix
       ELSE \E roots \in FindRootsEnds, refined \in Completes :
              IF roots # "returned"
              THEN /\ tx_pc' = "aborted"
                   /\ tx_err' = roots
                   /\ UNCHANGED tx_separatrix
              ELSE IF ~refined
              THEN /\ tx_pc' = "aborted"
                   /\ tx_err' = "Exception"
                   /\ UNCHANGED tx_separatrix
              ELSE /\ tx_pc' = "Mesh"
                   /\ tx_err' = tx_err
                   /\ tx_separatrix' = Legs
    /\ UNCHANGED <<sp_vars, tx_has_x_points, tx_x_points, tx_has_psi_sep,
                   tx_warned, tx_meshBuilt, tx_gridWritten>>

\* line 200: return Mesh(equilibrium, meshOptions)
TX_Mesh ==
    /\ TX_Frame
    /\ tx_pc = "Mesh"
    /\ \E ok \in Completes :
          IF ok THEN /\ tx_pc' = "geometry"
                     /\ tx_meshBuilt' = TRUE
                     /\ tx_err' = tx_err
                ELSE /\ tx_pc' = "aborted"
                     /\ tx_meshBuilt' = tx_meshBuilt
                     /\ tx_err' = "Exception"
    /\ UNCHANGED <<sp_vars, tx_has_x_points, tx_x_points, tx_has_psi_sep,
                   tx_warned, tx_findSeparatrixCalled, tx_separatrix,
                   tx_gridWritten>>

\* lines 210-217: mesh.geometry() and the plots
TX_Geometry ==
    /\ TX_Frame
    /\ tx_pc = "geometry"
    /\ \E ok \in Completes :
          IF ok THEN tx_pc' = "writeGridfile" /\ tx_err' = tx_err
                ELSE tx_pc' = "aborted" /\ tx_err' = "Exception"
    /\ UNCHANGED <<sp_vars, tx_has_x_points, tx_x_points, tx_has_psi_sep,
                   tx_warned, tx_findSeparatrixCalled, tx_separatrix,
                   tx_meshBuilt, tx_gridWritten>>

\* lines 219-221: mesh.writeGridfile(gridname); exit(0)
TX_WriteGridfile ==
    /\ TX_Frame
    /\ tx_pc = "writeGridfile"
    /\ \E ok \in Completes :
          IF ok THEN /\ tx_pc' = "exit"
                     /\ tx_gridWritten' = TRUE
                     /\ tx_err' = tx_err
                ELSE /\ tx_pc' = "aborted"
                     /\ tx_gridWritten' = tx_gridWritten
                     /\ tx_err' = "Exception"
    /\ UNCHANGED <<sp_vars, tx_has_x_points, tx_x_points, tx_has_psi_sep,
                   tx_warned, tx_findSeparatrixCalled, tx_separatrix,
                   tx_meshBuilt>>

TX_Next ==
    \/ TX_ParseInput \/ TX_Construct \/ TX_TryExcept \/ TX_Print
    \/ TX_FindSeparatrix \/ TX_Mesh \/ TX_Geometry \/ TX_WriteGridfile

\* ------------------------------------------------------------------------
\* The hypnotoad GUI: the handlers of HypnotoadGui
\* ------------------------------------------------------------------------
\* largest number of equilibrium objects created in a session
MaxCreated == 2
\* largest number of edits of the options form in a session
MaxEdits == 1

NoEq == [id |-> 0, options |-> 0]
NoMesh == [eq |-> 0]
NotEscaped == [type |-> "none", from |-> "none"]

\* how a call into the core (tokamak.read_geqdsk, BoutMesh, calculateRZ) can
\* end: normally, or with one of the exceptions the core raises
CoreOutcomes ==
    {"ok", "AssertionError", "ValueError", "NotImplementedError",
     "RuntimeError", "SolutionError"}

\* isinstance(e, cls) for the exception classes above: NotImplementedError
\* derives from RuntimeError; the others derive from Exception directly
IsInstance(e, cls) ==
    \/ e = cls
    \/ e = "NotImplementedError" /\ cls = "RuntimeError"

\* an except clause naming the classes handles the exception e
Handles(classes, e) == \E cls \in classes : IsInstance(e, cls)

\* line 368: except (ValueError, RuntimeError) as e
ReadGeqdskExcept == {"ValueError", "RuntimeError"}
\* line 401: except (ValueError, SolutionError) as e
RunExcept == {"ValueError", "SolutionError"}

\* the attributes of the window the handlers work on
GuiState ==
    [has_eq |-> gui_has_eq, eq |-> gui_eq, has_mesh |-> gui_has_mesh,
     mesh |-> gui_mesh, options |-> gui_options,
     write_grid_button |-> gui_write_grid_button, created |-> gui_created,
     grid_written |-> gui_grid_written,
     shown |-> "none", escaped |-> NotEscaped, returned |-> TRUE]

DeleteMeshBug(g) == g
\* lines 376-378: if hasattr(self, "mesh"): del self.mesh
DeleteMesh(g) == [g EXCEPT !.has_mesh = FALSE, !.mesh = NoMesh]

\* lines 348-380: read_geqdsk; exists is os.path.exists(geqdsk_filename),
\* outcome is how tokamak.read_geqdsk ends
read_geqdsk(g, exists, outcome) ==
    IF ~exists
    THEN [g EXCEPT !.shown = "Could not find equilibrium file"]
    ELSE IF outcome # "ok"
    THEN IF Handles(ReadGeqdskExcept, outcome)
         THEN [g EXCEPT !.shown = "QErrorMessage"]
         ELSE [g EXCEPT !.returned = FALSE,
                        !.escaped = [type |-> outcome,
                                     from |-> "tokamak.read_geqdsk"]]
    ELSE DeleteMesh([g EXCEPT !.has_eq = TRUE,
                              !.eq = [id |-> g.created + 1,
                                      options |-> g.options],
                              !.created = g.created + 1,
                              !.shown = "plot_grid"])

\* lines 382-412: run; mesh is how BoutMesh(self.eq) ends and rz how
\* self.mesh.calculateRZ() ends
run(g, exists, outcome, mesh, rz) ==
    IF ~g.has_eq
    THEN [g EXCEPT !.shown = "Missing equilibrium file!"]
    ELSE LET g1 == read_geqdsk(g, exists, outcome)
         IN  IF ~g1.returned
             THEN g1
             ELSE IF mesh # "ok"
             THEN IF Handles(RunExcept, mesh)
                  THEN [g1 EXCEPT !.shown = "QErrorMessage"]
                  ELSE [g1 EXCEPT !.returned = FALSE,
                                  !.escaped = [type |-> mesh,
                                               from |-> "BoutMesh"]]
             ELSE LET g2 == [g1 EXCEPT !.has_mesh = TRUE,
                                       !.mesh = [eq |-> g1.eq.id]]
                  IN  IF rz # "ok"
                      THEN [g2 EXCEPT !.returned = FALSE,
                                      !.escaped = [type |-> rz,
                                                   from |-> "calculateRZ"]]
                      ELSE [g2 EXCEPT !.shown = "Done!",
                                      !.write_grid_button = TRUE]

\* lines 414-436: write_grid; self.mesh.geometry() comes first
write_grid(g) ==
    IF ~g.has_mesh
    THEN [g EXCEPT !.returned = FALSE,
                   !.escaped = [type |-> "AttributeError",
                                from |-> "self.mesh"]]
    ELSE [g EXCEPT !.shown = "Save grid to file", !.grid_written = TRUE]

GUI_Start ==
    /\ gui_pc = "ready"
    /\ gui_has_eq = FALSE
    /\ gui_eq = NoEq
    /\ gui_has_mesh = FALSE
    /\ gui_mesh = NoMesh
    /\ gui_options = 0
    /\ gui_write_grid_button = FALSE
    /\ gui_created = 0
    /\ gui_handler = "__init__"
    /\ gui_shown = "none"
    /\ gui_escaped = NotEscaped
    /\ gui_grid_written = FALSE

GUI_Idle ==
    /\ gui_pc = "idle"
    /\ gui_has_eq = FALSE
    /\ gui_eq = NoEq
    /\ gui_has_mesh = FALSE
    /\ gui_mesh = NoMesh
    /\ gui_options = 0
    /\ gui_write_grid_button = FALSE
    /\ gui_created = 0
    /\ gui_handler = "__init__"
    /\ gui_shown = "none"
    /\ gui_escaped = NotEscaped
    /\ gui_grid_written = FALSE

\* the window after a handler that left it as g
GUI_Becomes(g, handler) ==
    /\ gui_has_eq' = g.has_eq
    /\ gui_eq' = g.eq
    /\ gui_has_mesh' = g.has_mesh
    /\ gui_mesh' = g.mesh
    /\ gui_options' = g.options
    /\ gui_write_grid_button' = g.write_grid_button
    /\ gui_created' = g.created
    /\ gui_grid_written' = g.grid_written
    /\ gui_shown' = g.shown
    /\ gui_escaped' = g.escaped
    /\ gui_handler' = handler
    /\ gui_pc' = gui_pc

\* geqdsk_file_line_edit.editingFinished: read_geqdsk
GUI_ReadGeqdsk ==
    /\ GUI_Frame
    /\ gui_pc = "ready"
    /\ gui_created < MaxCreated
    /\ \E exists \in BOOLEAN, outcome \in CoreOutcomes :
          GUI_Becomes(read_geqdsk(GuiState, exists, outcome), "read_geqdsk")

\* lines 327-346: select_geqdsk_file; the dialog is cancelled, or names a
\* file that is missing, or names a file that read_geqdsk then reads
GUI_SelectGeqdskFile ==
    /\ GUI_Frame
    /\ gui_pc = "ready"
    /\ gui_created < MaxCreated
    /\ \E choice \in {"cancelled", "missing", "chosen"},
          outcome \in CoreOutcomes :
          GUI_Becomes(
              IF choice = "cancelled" THEN GuiState
              ELSE IF choice = "missing"
              THEN [GuiState EXCEPT !.shown = "Could not find"]
              ELSE read_geqdsk(GuiState, TRUE, outcome),
              "select_geqdsk_file")

\* run_button.clicked, action_Run.triggered: run
GUI_Run ==
    /\ GUI_Frame
    /\ gui_pc = "ready"
    /\ gui_created < MaxCreated
    /\ \E exists \in BOOLEAN, outcome \in CoreOutcomes,
          mesh \in CoreOutcomes, rz \in CoreOutcomes :
          GUI_Becomes(run(GuiState, exists, outcome, mesh, rz), "run")

\* write_grid_button.clicked, action_Write_grid.triggered: write_grid
GUI_WriteGrid ==
    /\ GUI_Frame
    /\ gui_pc = "ready"
    /\ GUI_Becomes(write_grid(GuiState), "write_grid")

\* lines 243-278: options_form_changed with a new value for an option
GUI_OptionsFormChanged ==
    /\ GUI_Frame
    /\ gui_pc = "ready"
    /\ gui_options < MaxEdits
    /\ GUI_Becomes(
          [GuiState EXCEPT
              !.options = gui_options + 1,
              !.eq = IF gui_has_eq
                     THEN [gui_eq EXCEPT !.options = gui_options + 1]
                     ELSE gui_eq],
          "options_form_changed")

\* lines 161-170: new_options
GUI_NewOptions ==
    /\ GUI_Frame
    /\ gui_pc = "ready"
    /\ GUI_Becomes([GuiState EXCEPT !.options = 0], "new_options")

GUI_Next ==
    \/ GUI_ReadGeqdsk \/ GUI_SelectGeqdskFile \/ GUI_Run \/ GUI_WriteGrid
    \/ GUI_OptionsFormChanged \/ GUI_NewOptions

\* ------------------------------------------------------------------------
\* DCT_2D (dct_interpolation.py): exact arithmetic for its cosines
\*
\* Every angle the transform and its evaluation at grid nodes use is a
\* multiple of pi/24 when the axis lengths divide 12, so every value is a
\* rational combination of powers of zeta = exp(i*pi/24).  A value is
\* num[0]*zeta^0 + ... + num[23]*zeta^23, divided by den and multiplied by
\* pi^pi; zeta^24 = -1.  nan marks the result of a division by zero.
\* ------------------------------------------------------------------------
\* largest axis length of the constructed fields
MaxLen == 3
\* largest perturbation of one grid entry, in units of Tol/2
MaxDev == 2

\* numpy.pi in units of pi/24
Pi == 24
\* the uniformity tolerance 1.e-13 in units of 0.5e-13
Tol == 2

RECURSIVE GCD(_, _)
GCD(a, b) == IF b = 0 THEN a ELSE GCD(b, a % b)
LCM(a, b) == (a * b) \div GCD(a, b)

Value(num, den, pi) == [nan |-> FALSE, num |-> num, den |-> den, pi |-> pi]
ZeroVec == [j \in 0..(Pi - 1) |-> 0]
NaN == [nan |-> TRUE, num |-> ZeroVec, den |-> 1, pi |-> 0]
\* the float of an integer x
Float(x) == Value([j \in 0..(Pi - 1) |-> IF j = 0 THEN x ELSE 0], 1, 0)

\* v * zeta^m
MulZeta(v, m) ==
    [j \in 0..(Pi - 1) |->
        LET s == (j - m) % (2 * Pi)
        IN  IF s < Pi THEN v[s] ELSE 0 - v[s - Pi]]

\* x * numpy.cos(a), the angle a in units of pi/24:
\* cos(a) = (zeta^a + zeta^-a) / 2
TimesCos(x, a) ==
    IF x.nan THEN NaN
    ELSE LET p == MulZeta(x.num, a)
             q == MulZeta(x.num, 0 - a)
         IN  Value([j \in 0..(Pi - 1) |-> p[j] + q[j]], 2 * x.den, x.pi)

\* x * numpy.sin(a) = x * cos(a - pi/2)
TimesSin(x, a) == TimesCos(x, a - (Pi \div 2))

\* x * c and x / c for an integer c; a float division by zero gives inf or
\* nan, and every use of such a quotient here ends in nan
Times(x, c) ==
    IF x.nan THEN NaN
    ELSE Value([j \in 0..(Pi - 1) |-> x.num[j] * c], x.den, x.pi)

Over(x, c) ==
    IF x.nan \/ c = 0 THEN NaN
    ELSE IF c > 0 THEN Value(x.num, x.den * c, x.pi)
    ELSE Value([j \in 0..(Pi - 1) |-> 0 - x.num[j]], x.den * (0 - c), x.pi)

\* x * numpy.pi
TimesPi(x) == IF x.nan THEN NaN ELSE Value(x.num, x.den, x.pi + 1)

Plus(x, y) ==
    IF x.nan \/ y.nan THEN NaN
    ELSE LET d == LCM(x.den, y.den)
         IN  Value([j \in 0..(Pi - 1) |->
                        x.num[j] * (d \div x.den) + y.num[j] * (d \div y.den)],
                   d, x.pi)

\* f[0] + ... + f[n-1]
RECURSIVE SumTo(_, _)
SumTo(f, n) ==
    IF n = 0 THEN Float(0)
    ELSE IF n = 1 THEN f[0]
    ELSE Plus(SumTo(f, n - 1), f[n - 1])

\* numpy.sum of a two-dimensional array a[0..nZ-1][0..nR-1]
Sum2D(a, nZ, nR) == SumTo([kz \in 0..(nZ - 1) |-> SumTo(a[kz], nR)], nZ)

\* the coordinates of a value in the basis zeta^0 .. zeta^15 of the field of
\* the 48th roots of unity: zeta^16 = zeta^8 - 1
Canon(v) ==
    [j \in 0..(2 * (Pi \div 3) - 1) |->
        IF j < Pi \div 3 THEN v[j] - v[j + 2 * (Pi \div 3)]
        ELSE v[j] + v[j + (Pi \div 3)]]

\* x == y for two floats: their values agree, and neither is nan
SameValue(x, y) ==
       /\ ~x.nan /\ ~y.nan /\ x.pi = y.pi
       /\ \A j \in 0..(2 * (Pi \div 3) - 1) :
              Canon(x.num)[j] * y.den = Canon(y.num)[j] * x.den

\* ------------------------------------------------------------------------
\* DCT_2D.__init__
\* ------------------------------------------------------------------------
Abs(x) == IF x < 0 THEN 0 - x ELSE x

UniformBug(a, n) ==
    IF n = 1 THEN Abs(a[0] - a[0]) <= Tol
    ELSE \A k \in 0..(n - 1) :
             Abs((n - 1) * (a[k] - a[0]) - k * (a[n - 1] - a[0]))
                 <= Tol * (n - 1)
\* all(numpy.abs(a - numpy.linspace(a[0], a[-1], n)) < 1.e-13), both sides
\* multiplied by n - 1
Uniform(a, n) ==
    IF n = 1 THEN Abs(a[0] - a[0]) < Tol
    ELSE \A k \in 0..(n - 1) :
             Abs((n - 1) * (a[k] - a[0]) - k * (a[n - 1] - a[0]))
                 < Tol * (n - 1)

\* the angle pi*k*(2n+1)/(2N) of the type II transform, in units of pi/24
DctAngle(k, n, N) == (Pi * k * (2 * n + 1)) \div (2 * N)

\* scipy.fftpack.dct(x) of a vector x[0..N-1]:
\* y[k] = 2 * sum_n x[n] * cos(pi*k*(2n+1)/(2N))
dct(x, N) ==
    [k \in 0..(N - 1) |->
        Times(SumTo([n \in 0..(N - 1) |-> TimesCos(x[n], DctAngle(k, n, N))],
                    N), 2)]

\* dct(dct(psiRZ, axis=0), axis=1)
dct2(data, nZ, nR) ==
    LET cols == [i \in 0..(nR - 1) |->
                    dct([j \in 0..(nZ - 1) |-> Float(data[j][i])], nZ)]
        rows == [kz \in 0..(nZ - 1) |->
                    dct([i \in 0..(nR - 1) |-> cols[i][kz]], nR)]
    IN  rows

HalveZeroBug(kz, kr) == IF kz = 0 \/ kr = 0 THEN 2 ELSE 1
\* the divisor the statements psiDCT[0, :] /= 2. and psiDCT[:, 0] /= 2.
\* apply to entry [kz, kr]
HalveZero(kz, kr) ==
    (IF kz = 0 THEN 2 ELSE 1) * (IF kr = 0 THEN 2 ELSE 1)

\* self.psiDCT at the end of __init__
psiDCT(data, nZ, nR) ==
    LET t == dct2(data, nZ, nR)
    IN  [kz \in 0..(nZ - 1) |->
            [kr \in 0..(nR - 1) |->
                Over(Over(t[kz][kr], nR * nZ), HalveZero(kz, kr))]]

\* numpy.pi * numpy.arange(n) / n
coef(n) == [k \in 0..(n - 1) |-> Over(TimesPi(Float(k)), n)]

NoField == [built |-> FALSE]

\* Rarray[1] does not exist
FewPoints(n) == n < 2

\* DCT_2D(Rarray, Zarray, psiRZ): the exception raised, or the attributes of
\* the new object
DCT_2D(Rarray, Zarray, psiRZ) ==
    LET nR == Cardinality(DOMAIN Rarray)
        nZ == Cardinality(DOMAIN Zarray)
        raise(e) == [err |-> e, self |-> NoField]
    IN  IF nR = 0 THEN raise("IndexError")
        ELSE IF ~Uniform(Rarray, nR) THEN raise("AssertionError")
        ELSE IF nZ = 0 THEN raise("IndexError")
        ELSE IF ~Uniform(Zarray, nZ) THEN raise("AssertionError")
        ELSE IF FewPoints(nR) \/ FewPoints(nZ) THEN raise("IndexError")
        ELSE IF nR # psiRZ.shape[2] THEN raise("AssertionError")
        ELSE IF nZ # psiRZ.shape[1] THEN raise("AssertionError")
        ELSE [err |-> "none",
              self |-> [built |-> TRUE,
                        Rarray |-> Rarray, Zarray |-> Zarray,
                        nR |-> nR, nZ |-> nZ,
                        dR |-> Rarray[1] - Rarray[0],
                        dZ |-> Zarray[1] - Zarray[0],
                        Rmin |-> Rarray[0],
                        Rsize |-> Rarray[nR - 1] - Rarray[0],
                        Zmin |-> Zarray[0],
                        Zsize |-> Zarray[nZ - 1] - Zarray[0],
                        psiDCT |-> psiDCT(psiRZ.data, nZ, nR),
                        coef_R |-> coef(nR),
                        coef_Z |-> coef(nZ)]]

\* ------------------------------------------------------------------------
\* DCT_2D.__call__, ddR, ddZ at scalar arguments
\* ------------------------------------------------------------------------
\* (x - min) / size * (n - 1) as a fraction; a zero size gives inf or nan,
\* and the cosine of either is nan
IndexSpace(x, min, size, n) ==
    IF size = 0 THEN [nan |-> TRUE, num |-> 0, den |-> 1]
    ELSE IF size > 0 THEN [nan |-> FALSE, num |-> (x - min) * (n - 1),
                           den |-> size]
    ELSE [nan |-> FALSE, num |-> (min - x) * (n - 1), den |-> 0 - size]

\* c * (i + 0.5) for c = pi*k/n, in units of pi/24
Angle(c, i) == (Pi * c.num[0] * (2 * i.num + i.den)) \div (2 * c.den * i.den)

\* the angles at index-space position i are multiples of pi/24
Representable(cs, n, i) ==
    i.nan \/ \A k \in 0..(n - 1) :
                 (Pi * cs[k].num[0] * (2 * i.num + i.den))
                     % (2 * cs[k].den * i.den) = 0

\* x * c for the attribute entry c = pi*k/n
TimesCoef(x, c) == Over(TimesPi(Times(x, c.num[0])), c.den)

\* numpy.sum(self.psiDCT * cos(self.coef_R*(ir + 0.5))
\*                       * cos(self.coef_Z*(iz + 0.5)))
call(self, iR, iZ) ==
    IF iR.nan \/ iZ.nan THEN NaN
    ELSE Sum2D([kz \in 0..(self.nZ - 1) |->
                   [kr \in 0..(self.nR - 1) |->
                       TimesCos(TimesCos(self.psiDCT[kz][kr],
                                         Angle(self.coef_R[kr], iR)),
                                Angle(self.coef_Z[kz], iZ))]],
               self.nZ, self.nR)

\* -numpy.sum(self.psiDCT * self.coef_R/self.dR*sin(self.coef_R*(ir + 0.5))
\*                        * cos(self.coef_Z*(iz + 0.5)))
ddR(self, iR, iZ) ==
    IF iR.nan \/ iZ.nan THEN NaN
    ELSE Times(Sum2D([kz \in 0..(self.nZ - 1) |->
                   [kr \in 0..(self.nR - 1) |->
                       TimesCos(
                           TimesSin(
                               Over(TimesCoef(self.psiDCT[kz][kr],
                                              self.coef_R[kr]), self.dR),
                               Angle(self.coef_R[kr], iR)),
                           Angle(self.coef_Z[kz], iZ))]],
               self.nZ, self.nR), 0 - 1)

\* -numpy.sum(self.psiDCT * cos(self.coef_R*(ir + 0.5))
\*                        * self.coef_Z/self.dZ*sin(self.coef_Z*(iz + 0.5)))
ddZ(self, iR, iZ) ==
    IF iR.nan \/ iZ.nan THEN NaN
    ELSE Times(Sum2D([kz \in 0..(self.nZ - 1) |->
                   [kr \in 0..(self.nR - 1) |->
                       TimesSin(
                           Over(TimesCoef(
                                    TimesCos(self.psiDCT[kz][kr],
                                             Angle(self.coef_R[kr], iR)),
                                    self.coef_Z[kz]), self.dZ),
                           Angle(self.coef_Z[kz], iZ))]],
               self.nZ, self.nR), 0 - 1)

Methods == {"__call__", "ddR", "ddZ"}

\* the value a method returns
Evaluate(method, self, iR, iZ) ==
    CASE method = "__call__" -> call(self, iR, iZ)
      [] method = "ddR" -> ddR(self, iR, iZ)
      [] method = "ddZ" -> ddZ(self, iR, iZ)

SelfAfterBug(method, self, iR, iZ) ==
    IF method = "__call__" THEN self
    ELSE [self EXCEPT !.coef_R = [k \in DOMAIN self.coef_R |->
                                      Over(self.coef_R[k], self.dR)]]
\* the attributes after a method returned: no method assigns to self or
\* changes one of its arrays in place
SelfAfter(method, self, iR, iZ) == self

NoCall == [method |-> "none", R |-> 0, Z |-> 0,
           iR |-> [nan |-> TRUE, num |-> 0, den |-> 1],
           iZ |-> [nan |-> TRUE, num |-> 0, den |-> 1],
           value |-> NaN]

\* ------------------------------------------------------------------------
\* The caller of DCT_2D: its arguments and the calls it makes
\* ------------------------------------------------------------------------
\* axis lengths whose transform angles are multiples of pi/24
GridLens == {n \in 1..MaxLen : (Pi \div 2) % n = 0}
\* the spacings (dR, dZ) of the uniform grids, in units of GridScale
GridSteps == {<<1, 1>>, <<0, 0 - 1>>, <<0 - 1, 0>>}
\* spacing of the grids in units of 0.5e-13
GridScale == 2 * Tol
\* a uniform grid of n points whose entry kp is moved by dev
Grid(n, step, kp, dev) ==
    [k \in 0..(n - 1) |-> k * step * GridScale + (IF k = kp THEN dev ELSE 0)]
EmptyArray == [k \in {} |-> 0]
AnyGrids ==
    {EmptyArray} \cup
    {Grid(n, 1, kp, dev) :
        n \in GridLens, kp \in 0..(MaxLen - 1), dev \in 0..MaxDev}

\* a sample array of all zeros but one entry
Spike(nZ, nR, j0, i0, a) ==
    [shape |-> <<nZ, nR>>,
     data |-> [j \in 0..(nZ - 1) |->
                  [i \in 0..(nR - 1) |-> IF j = j0 /\ i = i0 THEN a ELSE 0]]]

\* a caller that constructs a field and does not evaluate it: arguments of
\* any length and shape, the samples all zero
DCT_StartAny ==
    /\ dct_Rarray \in AnyGrids
    /\ dct_Zarray \in AnyGrids
    /\ \E rows \in 1..MaxLen, cols \in 1..MaxLen :
           dct_psiRZ = Spike(rows, cols, 0, 0, 0)
    /\ dct_evaluates = FALSE

\* a caller that constructs a field and evaluates it: uniform grids of at
\* least two points with samples of the matching shape
DCT_StartUniform ==
    /\ \E nR \in GridLens \ {1}, nZ \in GridLens \ {1}, step \in GridSteps :
        /\ dct_Rarray = Grid(nR, step[1], 0, 0)
        /\ dct_Zarray = Grid(nZ, step[2], 0, 0)
        /\ \E j0 \in 0..(nZ - 1), i0 \in 0..(nR - 1), a \in {0, 1} :
               dct_psiRZ = Spike(nZ, nR, j0, i0, a)
    /\ dct_evaluates = TRUE

DCT_Start ==
    /\ dct_pc = "new"
    /\ DCT_StartAny \/ DCT_StartUniform
    /\ dct_self = NoField
    /\ dct_err = "none"
    /\ dct_last = NoCall

DCT_Idle ==
    /\ dct_pc = "idle"
    /\ dct_Rarray = EmptyArray
    /\ dct_Zarray = EmptyArray
    /\ dct_psiRZ = Spike(1, 1, 0, 0, 0)
    /\ dct_self = NoField
    /\ dct_err = "none"
    /\ dct_last = NoCall
    /\ dct_evaluates = FALSE

\* field = DCT_2D(Rarray, Zarray, psiRZ)
DCT_Init ==
    /\ DCT_Frame
    /\ dct_pc = "new"
    /\ LET r == DCT_2D(dct_Rarray, dct_Zarray, dct_psiRZ)
       IN  /\ dct_err' = r.err
           /\ dct_self' = r.self
           /\ dct_pc' = IF r.err = "none" THEN "built" ELSE "failed"
    /\ UNCHANGED <<dct_Rarray, dct_Zarray, dct_psiRZ, dct_last, dct_evaluates>>

\* field(R, Z), field.ddR(R, Z) or field.ddZ(R, Z) at a grid node
DCT_Method(method) ==
    /\ DCT_Frame
    /\ dct_pc = "built"
    /\ dct_evaluates
    /\ \E i \in 0..(dct_self.nR - 1), j \in 0..(dct_self.nZ - 1) :
         LET R == dct_self.Rarray[i]
             Z == dct_self.Zarray[j]
             iR == IndexSpace(R, dct_self.Rmin, dct_self.Rsize, dct_self.nR)
             iZ == IndexSpace(Z, dct_self.Zmin, dct_self.Zsize, dct_self.nZ)
         IN  /\ Representable(dct_self.coef_R, dct_self.nR, iR)
             /\ Representable(dct_self.coef_Z, dct_self.nZ, iZ)
             /\ dct_last' = [method |-> method, R |-> R, Z |-> Z,
                             iR |-> iR, iZ |-> iZ,
                             value |-> Evaluate(method, dct_self, iR, iZ)]
             /\ dct_self' = SelfAfter(method, dct_self, iR, iZ)
    /\ UNCHANGED <<dct_pc, dct_Rarray, dct_Zarray, dct_psiRZ, dct_err,
                   dct_evaluates>>

DCT_Call == DCT_Method("__call__")
DCT_ddR == DCT_Method("ddR")
DCT_ddZ == DCT_Method("ddZ")

DCT_Next == DCT_Init \/ DCT_Call \/ DCT_ddR \/ DCT_ddZ

\* ------------------------------------------------------------------------
\* Flux-surface contours (PsiContour): construction, append, reverse,
\* refine and getRefined
\*
\* The points lie on the corners of a rectangle of sides 3 and 4, so that
\* the distance between any two of them is a whole number.
\* ------------------------------------------------------------------------
\* largest number of points of a contour
MaxPoints == 3

CT_Points == {Point2D(R, Z) : R \in {0, 3}, Z \in {0, 4}}
\* flux functions: psi rising with R, with Z, and with both
CT_PsiFields ==
    {[q \in CT_Points |-> q.R \div 3],
     [q \in CT_Points |-> q.Z \div 4],
     [q \in CT_Points |-> (q.R \div 3) + (q.Z \div 4)]}
CT_PsiValues == {0, 1}
CT_Widths == {0, 3, 5}
CT_Atols == {0, 1}

\* the Euclidean distance between two points
calc_distance(p, q) ==
    CHOOSE d \in 0..(Abs(p.R - q.R) + Abs(p.Z - q.Z)) : d * d = DistSq(p, q)

\* the cumulative arc length of a chain of points
RECURSIVE ArcLength(_)
ArcLength(points) ==
    IF Len(points) = 0 THEN <<>>
    ELSE IF Len(points) = 1 THEN <<0>>
    ELSE LET n == Len(points)
             head == ArcLength(SubSeq(points, 1, n - 1))
         IN  Append(head, head[n - 1]
                          + calc_distance(points[n - 1], points[n]))

\* PsiContour(points, psi, psival)
Contour(points) == [points |-> points, distance |-> ArcLength(points)]
NoContour == [points |-> <<>>, distance |-> <<>>]

AppendDistanceBug(c, p) == calc_distance(c.points[1], p)
\* the entry append(p) adds to the distance array
AppendDistance(c, p) ==
    c.distance[Len(c.distance)] + calc_distance(c.points[Len(c.points)], p)

appendBug(c, p) ==
    [points |-> Append(c.points, p), distance |-> c.distance]
\* append(point) on a contour that has a point
append(c, p) ==
    [points |-> Append(c.points, p),
     distance |-> Append(c.distance, AppendDistance(c, p))]

ReverseDistanceBug(distance) ==
    [i \in 1..Len(distance) |-> distance[Len(distance) + 1 - i]]
\* the distance array reverse() leaves: total - old_distance[n-1-i]
ReverseDistance(distance) ==
    [i \in 1..Len(distance) |->
        distance[Len(distance)] - distance[Len(distance) + 1 - i]]

\* reverse()
reverse(c) ==
    [points |-> [i \in 1..Len(c.points) |-> c.points[Len(c.points) + 1 - i]],
     distance |-> ReverseDistance(c.distance)]

OnContourBug(psi, psival, atol, q) == (psi[q] - psival) <= atol
\* psi(q) == psival to tolerance atol
OnContour(psi, psival, atol, q) ==
    (psi[q] - psival) <= atol /\ (psival - psi[q]) <= atol

\* the points within the window of size width around p that lie on the
\* contour, nearest first: the results the search for p can return
Refined(psi, psival, width, atol, p) ==
    LET found == {q \in CT_Points :
                     /\ calc_distance(p, q) <= width
                     /\ OnContour(psi, psival, atol, q)}
    IN  {q \in found :
            \A r \in found : calc_distance(p, q) <= calc_distance(p, r)}

\* getRefined(width, atol): the new contours it can return; none when the
\* search fails for some point
RECURSIVE RefinedChains(_, _, _, _, _)
RefinedChains(points, psi, psival, width, atol) ==
    IF Len(points) = 0 THEN {<<>>}
    ELSE LET n == Len(points)
         IN  {Append(head, q) :
                 head \in RefinedChains(SubSeq(points, 1, n - 1), psi,
                                        psival, width, atol),
                 q \in Refined(psi, psival, width, atol, points[n])}
getRefined(c, psi, psival, width, atol) ==
    {Contour(points) :
        points \in RefinedChains(c.points, psi, psival, width, atol)}

\* ------------------------------------------------------------------------
\* The caller of a contour: its construction and the operations it applies
\* ------------------------------------------------------------------------
NoOperation == [op |-> "none", point |-> NoPoint, width |-> 0, atol |-> 0,
                ok |-> TRUE]
Operation(op, point, width, atol, ok) ==
    [op |-> op, point |-> point, width |-> width, atol |-> atol, ok |-> ok]

ct_self == [points |-> ct_points, distance |-> ct_distance]

\* c = PsiContour(points, psi, psival) for a list of at least one point
CT_Start ==
    /\ ct_pc = "ready"
    /\ \E n \in 1..MaxPoints : ct_points \in [1..n -> CT_Points]
    /\ ct_distance = Contour(ct_points).distance
    /\ ct_psi \in CT_PsiFields
    /\ ct_psival \in CT_PsiValues
    /\ ct_old = NoContour
    /\ ct_last = NoOperation
    /\ ct_new = NoContour

CT_Idle ==
    /\ ct_pc = "idle"
    /\ ct_points = <<>>
    /\ ct_distance = <<>>
    /\ ct_psi = [q \in CT_Points |-> 0]
    /\ ct_psival = 0
    /\ ct_old = NoContour
    /\ ct_last = NoOperation
    /\ ct_new = NoContour

\* c.append(p)
CT_Append ==
    /\ CT_Frame
    /\ ct_pc = "ready"
    /\ Len(ct_points) < MaxPoints
    /\ \E p \in CT_Points :
           /\ ct_points' = append(ct_self, p).points
           /\ ct_distance' = append(ct_self, p).distance
           /\ ct_last' = Operation("append", p, 0, 0, TRUE)
    /\ ct_old' = ct_self
    /\ ct_new' = NoContour
    /\ UNCHANGED <<ct_pc, ct_psi, ct_psival>>

\* c.reverse()
CT_Reverse ==
    /\ CT_Frame
    /\ ct_pc = "ready"
    /\ ct_points' = reverse(ct_self).points
    /\ ct_distance' = reverse(ct_self).distance
    /\ ct_last' = Operation("reverse", NoPoint, 0, 0, TRUE)
    /\ ct_old' = ct_self
    /\ ct_new' = NoContour
    /\ UNCHANGED <<ct_pc, ct_psi, ct_psival>>

\* c.refine(width, atol): the points of c become those getRefined returns
CT_Refine ==
    /\ CT_Frame
    /\ ct_pc = "ready"
    /\ \E width \in CT_Widths, atol \in CT_Atols :
         LET new == getRefined(ct_self, ct_psi, ct_psival, width, atol)
         IN  IF new = {}
             THEN /\ ct_last' = Operation("refine", NoPoint, width, atol,
                                          FALSE)
                  /\ UNCHANGED <<ct_points, ct_distance>>
             ELSE \E c \in new :
                      /\ ct_points' = c.points
                      /\ ct_distance' = c.distance
                      /\ ct_last' = Operation("refine", NoPoint, width, atol,
                                              TRUE)
    /\ ct_old' = ct_self
    /\ ct_new' = NoContour
    /\ UNCHANGED <<ct_pc, ct_psi, ct_psival>>

\* new = c.getRefined(width, atol)
CT_GetRefined ==
    /\ CT_Frame
    /\ ct_pc = "ready"
    /\ \E width \in CT_Widths, atol \in CT_Atols :
         LET new == getRefined(ct_self, ct_psi, ct_psival, width, atol)
         IN  IF new = {}
             THEN /\ ct_last' = Operation("getRefined", NoPoint, width, atol,
                                          FALSE)
                  /\ ct_new' = NoContour
             ELSE \E c \in new :
                      /\ ct_new' = c
                      /\ ct_last' = Operation("getRefined", NoPoint, width,
                                              atol, TRUE)
    /\ ct_old' = ct_self
    /\ UNCHANGED <<ct_pc, ct_points, ct_distance, ct_psi, ct_psival>>

CT_Next == CT_Append \/ CT_Reverse \/ CT_Refine \/ CT_GetRefined

\* ------------------------------------------------------------------------
\* Specifications
\* ------------------------------------------------------------------------
FR_Idle ==
    /\ fr_pc = "idle"
    /\ fr_n = 1
    /\ fr_maxintervals = 1
    /\ fr_f = [k \in 0..1 |-> 1]
    /\ fr_n_intervals = 1
    /\ fr_interval_f = <<>>
    /\ fr_intervals_with_roots = <<>>
    /\ fr_i = 1
    /\ fr_roots = <<>>
    /\ fr_foundRoots = 0
    /\ fr_err = "none"
    /\ fr_rounds = 0
    /\ fr_counted = FALSE

\* ------------------------------------------------------------------------
\* create_tokamak of the tokamak example
\* ------------------------------------------------------------------------
\* largest nx and ny passed explicitly
MaxNx == 2

\* the parameters of create_tokamak
TK_Params == {"geometry", "nx", "ny"}
\* line 6: def create_tokamak(geometry="sn", nx=65, ny=65)
DefaultGeometry == "sn"
DefaultNx == 65
DefaultNy == 65

\* line 13: the geometries the docstring lists
Documented == {"lsn", "usn", "cdn", "udn", "ldn", "udn2"}
\* lines 32-62: the keys of psi_functions
psi_functions == {"lsn", "usn", "cdn", "udn", "ldn", "udn2"}
\* the geometry names callers pass
GeometryNames == Documented \cup {DefaultGeometry, "dn"}

\* the value a parameter takes in the call: the argument if one was passed
Bind(args, param, default) ==
    IF param \in args.passed THEN args[param] ELSE default

\* numpy.linspace(start, stop, n): an array of n points
linspace_len(n) == n
\* numpy.meshgrid(r1d, z1d, indexing="ij"): two arrays of shape
\* (len(r1d), len(z1d)); psi_func works element by element
meshgrid_shape(r1d_len, z1d_len) == <<r1d_len, z1d_len>>

NoArrays == [raised |-> FALSE, err |-> "none", r1d |-> 0 - 1, z1d |-> 0 - 1,
             psi2d |-> <<>>]

\* lines 6-71: create_tokamak; arrays are represented by their shapes
create_tokamak(args) ==
    LET geometry == Bind(args, "geometry", DefaultGeometry)
        nx == Bind(args, "nx", DefaultNx)
        ny == Bind(args, "ny", DefaultNy)
        r1d == linspace_len(nx)
        z1d == linspace_len(ny)
    IN  IF geometry \notin psi_functions
        THEN [NoArrays EXCEPT !.raised = TRUE, !.err = "ValueError"]
        ELSE [NoArrays EXCEPT !.r1d = r1d, !.z1d = z1d,
                              !.psi2d = meshgrid_shape(r1d, z1d)]

\* no argument passed
NoArgs == [passed |-> {}, geometry |-> DefaultGeometry, nx |-> DefaultNx,
           ny |-> DefaultNy]

\* the calls made: any subset of the parameters passed, with a geometry
\* name and numbers of points up to MaxNx
TK_Calls ==
    {a \in [passed : SUBSET TK_Params, geometry : GeometryNames,
            nx : (0..MaxNx) \cup {DefaultNx},
            ny : (0..MaxNx) \cup {DefaultNy}] :
        \A param \in TK_Params \ a.passed : a[param] = NoArgs[param]}

TK_Start ==
    /\ tk_pc = "call"
    /\ tk_args \in TK_Calls
    /\ tk_result = NoArrays

TK_Idle ==
    /\ tk_pc = "idle"
    /\ tk_args = NoArgs
    /\ tk_result = NoArrays

\* the call create_tokamak(...) with the arguments that were passed
TK_Call ==
    /\ TK_Frame
    /\ tk_pc = "call"
    /\ tk_result' = create_tokamak(tk_args)
    /\ tk_pc' = "done"
    /\ UNCHANGED tk_args

TK_Next == TK_Call

\* ------------------------------------------------------------------------
\* save_options and save_options_as of the hypnotoad GUI
\* ------------------------------------------------------------------------
\* number of nested calls at which the interpreter raises RecursionError
\* (sys.getrecursionlimit(), scaled down)
MaxDepth == 6

\* line 108: self.filename = "Untitled.yml"
Untitled == "Untitled.yml"
\* the file names the user picks in a dialog
SV_Names == {"a.yml", "b.yml"}
\* the dialog returns "" when the user cancels it
Cancelled == ""

\* line 179: not self.filename or self.filename == "Untitled.yml"
NoName(filename) == filename = Cancelled \/ filename = Untitled

SV_Start ==
    /\ sv_pc = "ready"
    /\ sv_filename = Untitled
    /\ sv_stack = <<>>
    /\ sv_dialogs = 0
    /\ sv_writes = 0
    /\ sv_unnamed = FALSE
    /\ sv_err = "none"

SV_Idle ==
    /\ sv_pc = "idle"
    /\ sv_filename = Untitled
    /\ sv_stack = <<>>
    /\ sv_dialogs = 0
    /\ sv_writes = 0
    /\ sv_unnamed = FALSE
    /\ sv_err = "none"

\* a call of callee made by caller, which waits for it to return; at the
\* recursion limit the call raises RecursionError, which no frame catches
SV_Calls(caller, callee) ==
    IF Len(sv_stack) + 1 >= MaxDepth
    THEN /\ sv_pc' = "ready"
         /\ sv_stack' = <<>>
         /\ sv_err' = "RecursionError"
    ELSE /\ sv_pc' = callee
         /\ sv_stack' = Append(sv_stack, caller)
         /\ sv_err' = sv_err

\* lines 291-308: select_options_file sets self.filename to the chosen file
SV_SelectOptionsFile ==
    /\ SV_Frame
    /\ sv_pc = "ready"
    /\ \E filename \in SV_Names : sv_filename' = filename
    /\ UNCHANGED <<sv_pc, sv_stack, sv_dialogs, sv_writes, sv_unnamed, sv_err>>

\* action_Save.triggered: save_options
SV_Save ==
    /\ SV_Frame
    /\ sv_pc = "ready"
    /\ sv_pc' = "save_options"
    /\ sv_stack' = <<>>
    /\ sv_dialogs' = 0
    /\ sv_writes' = 0
    /\ sv_unnamed' = NoName(sv_filename)
    /\ sv_err' = "none"
    /\ UNCHANGED sv_filename

\* action_Save_as.triggered: save_options_as
SV_SaveAs ==
    /\ SV_Frame
    /\ sv_pc = "ready"
    /\ sv_pc' = "save_options_as"
    /\ sv_stack' = <<>>
    /\ sv_dialogs' = 0
    /\ sv_writes' = 0
    /\ sv_unnamed' = FALSE
    /\ sv_err' = "none"
    /\ UNCHANGED sv_filename

\* lines 177-180: the test of save_options and its call of save_options_as
SV_SaveOptions ==
    /\ SV_Frame
    /\ sv_pc = "save_options"
    /\ IF NoName(sv_filename)
       THEN SV_Calls("save_options", "save_options_as")
       ELSE /\ sv_pc' = "write"
            /\ UNCHANGED <<sv_stack, sv_err>>
    /\ UNCHANGED <<sv_filename, sv_dialogs, sv_writes, sv_unnamed>>

\* lines 208-212: save_options_as shows the dialog, assigns self.filename
\* and calls save_options
SV_SaveOptionsAs ==
    /\ SV_Frame
    /\ sv_pc = "save_options_as"
    /\ \E filename \in SV_Names \cup {Cancelled} : sv_filename' = filename
    /\ sv_dialogs' = sv_dialogs + 1
    /\ SV_Calls("save_options_as", "save_options")
    /\ UNCHANGED <<sv_writes, sv_unnamed>>

\* lines 182-201: the rest of save_options, which writes the options to
\* self.filename
SV_Write ==
    /\ SV_Frame
    /\ sv_pc = "write"
    /\ sv_writes' = sv_writes + 1
    /\ sv_pc' = "return"
    /\ UNCHANGED <<sv_filename, sv_stack, sv_dialogs, sv_unnamed, sv_err>>

\* a call returns: to the event loop, to line 182 of save_options, or to
\* the end of save_options_as
SV_Return ==
    /\ SV_Frame
    /\ sv_pc = "return"
    /\ IF sv_stack = <<>>
       THEN /\ sv_pc' = "ready"
            /\ UNCHANGED sv_stack
       ELSE /\ sv_stack' = SubSeq(sv_stack, 1, Len(sv_stack) - 1)
            /\ sv_pc' = (IF sv_stack[Len(sv_stack)] = "save_options"
                         THEN "write" ELSE "return")
    /\ UNCHANGED <<sv_filename, sv_dialogs, sv_writes, sv_unnamed, sv_err>>

SV_Next ==
    \/ SV_SelectOptionsFile \/ SV_Save \/ SV_SaveAs \/ SV_SaveOptions
    \/ SV_SaveOptionsAs \/ SV_Write \/ SV_Return

\* ------------------------------------------------------------------------
\* The hypnotoad2 GUI: the handlers of HypnotoadGui in hypnotoad2/gui/gui.py
\* ------------------------------------------------------------------------
\* no entry for a key in a dict
Absent == "absent"

\* line 75: self.options = dict(TokamakEquilibrium.default_options.items()),
\* here with one option for each kind of value add_options_widget tells
\* apart; values are written as their text
G2_Defaults ==
    [orthogonal |-> "True", nx_core |-> "5", psi_core |-> "0.9",
     grid_file |-> "bout.grd.nc"]
G2_Keys == DOMAIN G2_Defaults
\* the keys self.options can hold: those of the defaults, and the keyword
\* name key of line 91
G2_AllKeys == G2_Keys \cup {"key"}

\* lines 31-43: convert_python_type_to_qwidget(value) for the defaults
G2_WidgetType(key) ==
    CASE key = "orthogonal" -> "QCheckBox"
      [] key = "nx_core" -> "QSpinBox"
      [] key = "psi_core" -> "QDoubleSpinBox"
      [] OTHER -> "QLineEdit"

\* the values the user can give to the widget of an option
G2_WidgetValues(key) ==
    CASE key = "orthogonal" -> {"True", "False"}
      [] key = "nx_core" -> {"5", "6"}
      [] key = "psi_core" -> {"0.9", "0.8"}
      [] OTHER -> {"bout.grd.nc", "other.nc"}

\* dict.update(**kwargs): each keyword becomes a key of the dict
update(options, keyword, value) == [options EXCEPT ![keyword] = value]

\* lines 89-105: the slot add_options_widget(key, value) connects to the
\* widget's signal, called with the widget's new state: the lambda of a
\* check box passes the value the widget was created with, the others pass
\* the new state; each passes it under the keyword key
Slot(options, key, value, state) ==
    IF G2_WidgetType(key) = "QCheckBox"
    THEN update(options, "key", value)
    ELSE update(options, "key", state)

NoChange == [key |-> "none", value |-> Absent,
             before |-> [k \in G2_AllKeys |-> Absent]]

G2_Start ==
    /\ g2_pc = "ready"
    /\ g2_options = [k \in G2_AllKeys |->
                        IF k \in G2_Keys THEN G2_Defaults[k] ELSE Absent]
    /\ g2_widgets = G2_Defaults
    /\ g2_has_eq = FALSE
    /\ g2_has_mesh = FALSE
    /\ g2_write_grid_button = FALSE
    /\ g2_handler = "__init__"
    /\ g2_shown = "none"
    /\ g2_escaped = NotEscaped
    /\ g2_changed = NoChange

G2_Idle ==
    /\ g2_pc = "idle"
    /\ g2_options = [k \in G2_AllKeys |-> Absent]
    /\ g2_widgets = G2_Defaults
    /\ g2_has_eq = FALSE
    /\ g2_has_mesh = FALSE
    /\ g2_write_grid_button = FALSE
    /\ g2_handler = "__init__"
    /\ g2_shown = "none"
    /\ g2_escaped = NotEscaped
    /\ g2_changed = NoChange

\* the user changes the widget of the option key to the value state
G2_WidgetChanged ==
    /\ G2_Frame
    /\ g2_pc = "ready"
    /\ \E key \in G2_Keys :
         \E state \in G2_WidgetValues(key) \ {g2_widgets[key]} :
            /\ g2_widgets' = [g2_widgets EXCEPT ![key] = state]
            /\ g2_options' = Slot(g2_options, key, G2_Defaults[key], state)
            /\ g2_changed' = [key |-> key, value |-> state,
                              before |-> g2_options]
    /\ g2_handler' = "widget_changed"
    /\ g2_shown' = "none"
    /\ g2_escaped' = NotEscaped
    /\ UNCHANGED <<g2_pc, g2_has_eq, g2_has_mesh, g2_write_grid_button>>

\* lines 194-221: read_geqdsk; no exception of tokamak.read_geqdsk is caught
G2_ReadGeqdsk ==
    /\ G2_Frame
    /\ g2_pc = "ready"
    /\ g2_handler' = "read_geqdsk"
    /\ \E exists \in BOOLEAN, outcome \in CoreOutcomes :
         IF ~exists
         THEN /\ g2_shown' = "Could not find equilibrium file"
              /\ g2_escaped' = NotEscaped
              /\ UNCHANGED g2_has_eq
         ELSE IF outcome # "ok"
         THEN /\ g2_shown' = "none"
              /\ g2_escaped' = [type |-> outcome,
                                from |-> "tokamak.read_geqdsk"]
              /\ UNCHANGED g2_has_eq
         ELSE /\ g2_shown' = "plotPotential"
              /\ g2_escaped' = NotEscaped
              /\ g2_has_eq' = TRUE
    /\ UNCHANGED <<g2_pc, g2_options, g2_widgets, g2_has_mesh,
                   g2_write_grid_button, g2_changed>>

\* lines 223-250: run; no exception of BoutMesh or geometry is caught
G2_Run ==
    /\ G2_Frame
    /\ g2_pc = "ready"
    /\ g2_handler' = "run"
    /\ IF ~g2_has_eq
       THEN /\ g2_shown' = "Missing equilibrium file!"
            /\ g2_escaped' = NotEscaped
            /\ UNCHANGED <<g2_has_mesh, g2_write_grid_button>>
       ELSE \E mesh \in CoreOutcomes, geometry \in CoreOutcomes :
              IF mesh # "ok"
              THEN /\ g2_shown' = "Running..."
                   /\ g2_escaped' = [type |-> mesh, from |-> "BoutMesh"]
                   /\ UNCHANGED <<g2_has_mesh, g2_write_grid_button>>
              ELSE IF geometry # "ok"
              THEN /\ g2_shown' = "Running..."
                   /\ g2_escaped' = [type |-> geometry, from |-> "geometry"]
                   /\ g2_has_mesh' = TRUE
                   /\ UNCHANGED g2_write_grid_button
              ELSE /\ g2_shown' = "Done!"
                   /\ g2_escaped' = NotEscaped
                   /\ g2_has_mesh' = TRUE
                   /\ g2_write_grid_button' = TRUE
    /\ UNCHANGED <<g2_pc, g2_options, g2_widgets, g2_has_eq, g2_changed>>

\* lines 252-269: write_grid; the message box is not followed by a return
G2_WriteGrid ==
    /\ G2_Frame
    /\ g2_pc = "ready"
    /\ g2_handler' = "write_grid"
    /\ IF ~g2_has_mesh
       THEN /\ g2_shown' = "Save grid to file"
            /\ g2_escaped' = [type |-> "AttributeError", from |-> "self.mesh"]
       ELSE /\ g2_shown' = "Save grid to file"
            /\ g2_escaped' = NotEscaped
    /\ UNCHANGED <<g2_pc, g2_options, g2_widgets, g2_has_eq, g2_has_mesh,
                   g2_write_grid_button, g2_changed>>

G2_Next ==
    \/ G2_WidgetChanged \/ G2_ReadGeqdsk \/ G2_Run \/ G2_WriteGrid

\* calls of findRoots_1d
InitRoots ==
    FR_Start /\ FE_Idle /\ SP_Idle /\ TX_Idle /\ GUI_Idle /\ DCT_Idle
    /\ CT_Idle
    /\ TK_Idle /\ SV_Idle /\ G2_Idle
SpecRoots == InitRoots /\ [][FR_Next]_vars
\* a call runs to completion: no step of it waits for anything
FairSpecRoots == SpecRoots /\ WF_vars(FR_Next)

\* calls of findExtremum_1d
InitExtremum ==
    FR_Idle /\ FE_Start /\ SP_Idle /\ TX_Idle /\ GUI_Idle /\ DCT_Idle
    /\ CT_Idle
    /\ TK_Idle /\ SV_Idle /\ G2_Idle
SpecExtremum == InitExtremum /\ [][FE_Next]_vars

\* calls of findSaddlePoint
InitSaddle ==
    FR_Idle /\ FE_Idle /\ SP_Start /\ TX_Idle /\ GUI_Idle /\ DCT_Idle
    /\ CT_Idle
    /\ TK_Idle /\ SV_Idle /\ G2_Idle
SpecSaddle == InitSaddle /\ [][SP_Next]_vars
FairSpecSaddle == SpecSaddle /\ WF_vars(SP_Next)

\* runs of the TORPEX batch tool, with the call of findSaddlePoint they make
InitTorpex ==
    FR_Idle /\ FE_Idle /\ SP_Idle /\ TX_Start /\ GUI_Idle /\ DCT_Idle
    /\ CT_Idle
    /\ TK_Idle /\ SV_Idle /\ G2_Idle
NextTorpex == TX_Next \/ SP_Next
SpecTorpex == InitTorpex /\ [][NextTorpex]_vars

\* constructions of a DCT_2D and evaluations of it
InitDct ==
    FR_Idle /\ FE_Idle /\ SP_Idle /\ TX_Idle /\ GUI_Idle /\ DCT_Start
    /\ CT_Idle
    /\ TK_Idle /\ SV_Idle /\ G2_Idle
SpecDct == InitDct /\ [][DCT_Next]_vars

\* contours and the operations applied to them
InitContour ==
    FR_Idle /\ FE_Idle /\ SP_Idle /\ TX_Idle /\ GUI_Idle /\ DCT_Idle
    /\ CT_Start
    /\ TK_Idle /\ SV_Idle /\ G2_Idle
SpecContour == InitContour /\ [][CT_Next]_vars

\* sessions of the hypnotoad GUI
InitGui ==
    FR_Idle /\ FE_Idle /\ SP_Idle /\ TX_Idle /\ GUI_Start /\ DCT_Idle
    /\ CT_Idle
    /\ TK_Idle /\ SV_Idle /\ G2_Idle
SpecGui == InitGui /\ [][GUI_Next]_vars

\* the state of the other programs while one of the three below runs
Others_Idle ==
    FR_Idle /\ FE_Idle /\ SP_Idle /\ TX_Idle /\ GUI_Idle /\ DCT_Idle
    /\ CT_Idle

\* calls of create_tokamak
InitTokamak == Others_Idle /\ TK_Start /\ SV_Idle /\ G2_Idle
SpecTokamak == InitTokamak /\ [][TK_Next]_vars

\* invocations of save_options in a session of the hypnotoad GUI
InitSave == Others_Idle /\ TK_Idle /\ SV_Start /\ G2_Idle
SpecSave == InitSave /\ [][SV_Next]_vars

\* sessions of the hypnotoad2 GUI
InitGui2 == Others_Idle /\ TK_Idle /\ SV_Idle /\ G2_Start
SpecGui2 == InitGui2 /\ [][G2_Next]_vars




\* ------------------------------------------------------------------------
\* Properties of findRoots_1d
\* ------------------------------------------------------------------------
RECURSIVE FloorLog2(_)
FloorLog2(q) == IF q < 2 THEN 0 ELSE 1 + FloorLog2(q \div 2)

FR_InLoop == fr_pc \in {"sample", "lucky", "count"}

\* n_intervals is n doubled once per completed sampling round
FR_Doubling ==
    /\ fr_pc = "sample" => fr_n_intervals = fr_n * 2^fr_rounds
    /\ fr_pc \in {"lucky", "count"} =>
           /\ fr_rounds >= 1
           /\ fr_n_intervals = fr_n * 2^(fr_rounds - 1)
    /\ FR_InLoop => fr_n_intervals <= fr_maxintervals
    /\ (fr_pc = "raised" /\ fr_counted /\ fr_roots = <<>> /\ fr_i = 1
            /\ fr_n_intervals > fr_maxintervals) =>
           /\ fr_err = "ValueError"
           /\ fr_n_intervals = fr_n * 2^fr_rounds

\* C1: with n <= maxintervals the sampling loop of findRoots_1d starts at
\* n_intervals = n, doubles n_intervals after every round with fewer than n
\* sign changes, raises as soon as the doubled value exceeds maxintervals,
\* and so leaves the loop (by break or by raising) after at most
\* floor(log2(maxintervals/n)) + 1 sampling rounds.
C1_SamplingLoopTerminates ==
    /\ [](FR_Doubling
          /\ fr_rounds <= FloorLog2(fr_maxintervals \div fr_n) + 1)
    /\ <>(~FR_InLoop)

\* the loop gave up in the last round the bound allows, after resampling
C1_Witness ==
    /\ fr_pc = "raised"
    /\ fr_err = "ValueError"
    /\ fr_roots = <<>>
    /\ fr_n_intervals > fr_maxintervals
    /\ fr_rounds >= 2
    /\ fr_rounds = FloorLog2(fr_maxintervals \div fr_n) + 1

\* the for loop over the bracketing intervals has run to its end
FR_LoopDone ==
    /\ fr_pc \in {"returned", "raised"}
    /\ fr_counted
    /\ fr_i > Len(fr_intervals_with_roots)

\* C2: when findRoots_1d finds more roots than the n expected, it warns
\* without failing and returns all the roots found; no exception reaches
\* the caller.
C2_SurplusRootsReturned ==
    (FR_LoopDone /\ fr_foundRoots > fr_n) =>
        /\ fr_pc = "returned"
        /\ fr_err = "none"
        /\ Len(fr_roots) = fr_foundRoots

\* some sample of the current round is exactly zero
FR_ZeroSampled == \E k \in 1..Len(fr_interval_f) : fr_interval_f[k] = 0

\* C3: in every sampling round, a sample that is exactly zero makes the
\* call fail at once, before the sign changes of that round are counted and
\* without any root being returned, however many sign changes the samples
\* of the round hold.
C3_ZeroSampleFails ==
    /\ (FR_ZeroSampled /\ fr_pc # "lucky") =>
           /\ fr_pc = "raised"
           /\ fr_err = "NotImplementedError"
           /\ ~fr_counted
           /\ fr_roots = <<>>
    /\ fr_err = "NotImplementedError" =>
           /\ FR_ZeroSampled
           /\ fr_pc = "raised"
           /\ ~fr_counted

\* the call failed on a zero sample in a round whose samples hold n or more
\* sign changes
C3_Witness ==
    /\ fr_pc = "raised"
    /\ fr_err = "NotImplementedError"
    /\ Cardinality({k \in 1..(Len(fr_interval_f) - 1) :
                       fr_interval_f[k] # fr_interval_f[k + 1]}) >= fr_n

\* the sampling intervals of the final round whose end values differ in sign
FR_Bracketing ==
    {k \in 1..fr_n_intervals :
        fr_f[(k - 1) * (Finest(fr_n, fr_maxintervals) \div fr_n_intervals)]
          # fr_f[k * (Finest(fr_n, fr_maxintervals) \div fr_n_intervals)]}

\* C4: whenever findRoots_1d returns, the result holds exactly one root for
\* each interval of the final sampling round whose end values differ in
\* sign, every root lies in its own interval, the roots ascend, and there
\* are at least n of them.
C4_RootsBracketed ==
    fr_pc = "returned" =>
        /\ Len(fr_roots) = Cardinality(FR_Bracketing)
        /\ Len(fr_roots) = Len(fr_intervals_with_roots)
        /\ \A j \in 1..Len(fr_roots) :
              /\ fr_intervals_with_roots[j] \in FR_Bracketing
              /\ linspace(fr_n_intervals, fr_intervals_with_roots[j] - 1)
                    <= fr_roots[j]
              /\ fr_roots[j]
                    <= linspace(fr_n_intervals, fr_intervals_with_roots[j])
        /\ \A j \in 1..(Len(fr_roots) - 1) :
              /\ fr_intervals_with_roots[j] < fr_intervals_with_roots[j + 1]
              /\ fr_roots[j] <= fr_roots[j + 1]
        /\ Len(fr_roots) >= fr_n

\* a call returned two roots after the sampling was refined once
C4_Witness ==
    /\ fr_pc = "returned"
    /\ Len(fr_roots) = 2
    /\ fr_rounds >= 2

\* ------------------------------------------------------------------------
\* Properties of findExtremum_1d
\* ------------------------------------------------------------------------
\* position x of the segment is farther than d grid steps from both ends,
\* for d = factor * rtol * |pos2-pos1|
FE_Interior(x, factor) ==
    /\ x * fe_rtolInv > factor * SegLen
    /\ (SegLen - x) * fe_rtolInv > factor * SegLen

\* the outcome findExtremum_1d has when "interior" means farther than
\* factor*rtol*|pos2-pos1| from both ends
FE_Expected(factor) ==
    IF ~fe_min.success
    THEN fe_out.raised /\ ~fe_out.ranMax
    ELSE IF FE_Interior(fe_min.x, factor)
    THEN /\ ~fe_out.raised
         /\ fe_out.isMin
         /\ ~fe_out.ranMax
         /\ fe_out.pos = Point2D(fe_min.x, 0)
    ELSE IF ~fe_max.success
    THEN fe_out.raised /\ fe_out.ranMax
    ELSE IF FE_Interior(fe_max.x, factor)
    THEN /\ ~fe_out.raised
         /\ ~fe_out.isMin
         /\ fe_out.pos = Point2D(fe_max.x, 0)
    ELSE /\ fe_out.raised
         /\ fe_out.msg = "Neither minimum nor maximum found in interval"

\* C5 as stated: findExtremum_1d returns (minpos, True) when the minimiser's
\* location is farther than rtol*|pos2-pos1| from both ends, without running
\* the maximiser; else (maxpos, False) when the maximiser's location is that
\* far from both ends; else it raises; a search that does not converge makes
\* the call fail.
C5_InteriorByRtol == fe_pc = "done" => FE_Expected(1)

\* C5 as amended: the same with the distance 10*rtol*|pos2-pos1| in place of
\* rtol*|pos2-pos1|.
C5_InteriorBySmallDistance == fe_pc = "done" => FE_Expected(SmallFactor)

\* the minimum lies between rtol*|pos2-pos1| and 10*rtol*|pos2-pos1| from an
\* end, and the call went on to the maximiser and returned the maximum
C5_Witness ==
    /\ fe_pc = "done"
    /\ fe_min.success
    /\ FE_Interior(fe_min.x, 1)
    /\ ~FE_Interior(fe_min.x, SmallFactor)
    /\ ~fe_out.raised
    /\ ~fe_out.isMin
    /\ fe_out.ranMax

\* ------------------------------------------------------------------------
\* Properties of findSaddlePoint
\* ------------------------------------------------------------------------
\* the four edge searches have returned and the assertions were evaluated
SP_Checked ==
    /\ sp_posRight # NoPoint
    /\ sp_pc \notin {"idle", "assert"}

SP_Signature ==
    /\ sp_minTop = sp_minBottom
    /\ sp_minLeft = sp_minRight
    /\ sp_minTop # sp_minLeft

\* C6: findSaddlePoint enters its iteration only when the edge searches show
\* the saddle signature (top and bottom agree, left and right agree, and the
\* two classifications differ); otherwise the call fails before any line
\* search of the iteration and returns no point.
C6_SignatureGuardsIteration ==
    /\ sp_pc \in {"while", "vert", "horiz", "return", "returned"} =>
           SP_Signature
    /\ (SP_Checked /\ ~SP_Signature) =>
           /\ sp_pc = "raised"
           /\ sp_err = "AssertionError"
           /\ sp_lastVert = NoPoint
           /\ sp_lastHoriz = NoPoint
           /\ sp_result = NoPoint

\* the call failed because all four edges have the same classification
C6_Witness ==
    /\ sp_pc = "raised"
    /\ sp_err = "AssertionError"
    /\ sp_minTop = sp_minBottom
    /\ sp_minLeft = sp_minRight
    /\ sp_minTop = sp_minLeft

\* C7: for every field and every box that passes the signature check,
\* findSaddlePoint returns a point or raises after a bounded number of
\* iterations; it never iterates forever.
C7_IterationEnds == <>(sp_pc \in {"returned", "raised"})

\* C8 as stated: whenever findSaddlePoint returns, the returned point is the
\* midpoint of the latest vertical and the latest horizontal line-search
\* result, which are no farther apart than atol, for every box.
C8_MidpointOfSearches ==
    sp_pc = "returned" =>
        /\ sp_lastVert # NoPoint
        /\ sp_lastHoriz # NoPoint
        /\ Half * sp_result.R = sp_lastVert.R + sp_lastHoriz.R
        /\ Half * sp_result.Z = sp_lastVert.Z + sp_lastHoriz.Z
        /\ DistSq(sp_lastVert, sp_lastHoriz) <= sp_atol * sp_atol

\* the diagonal of the box is larger than atol
SP_BoxWiderThanAtol ==
    (Box.Rmax - Box.Rmin) * (Box.Rmax - Box.Rmin)
      + (Box.Zmax - Box.Zmin) * (Box.Zmax - Box.Zmin) > sp_atol * sp_atol

\* C8 as amended: for a box whose diagonal is larger than atol the above
\* holds; for a box whose diagonal is not larger than atol no line search
\* of the iteration runs and the centre of the box is returned.
C8_MidpointOrBoxCentre ==
    sp_pc = "returned" =>
        IF SP_BoxWiderThanAtol
        THEN /\ sp_lastVert # NoPoint
             /\ sp_lastHoriz # NoPoint
             /\ Half * sp_result.R = sp_lastVert.R + sp_lastHoriz.R
             /\ Half * sp_result.Z = sp_lastVert.Z + sp_lastHoriz.Z
             /\ DistSq(sp_lastVert, sp_lastHoriz) <= sp_atol * sp_atol
        ELSE /\ sp_lastVert = NoPoint
             /\ sp_lastHoriz = NoPoint
             /\ Half * sp_result.R = Box.Rmin + Box.Rmax
             /\ Half * sp_result.Z = Box.Zmin + Box.Zmax

\* the call returned after more than one iteration
C8_Witness ==
    /\ sp_pc = "returned"
    /\ sp_count >= 2
    /\ sp_lastVert # NoPoint
    /\ sp_result # sp_lastVert

\* ------------------------------------------------------------------------
\* Properties of the TORPEX batch tool
\* ------------------------------------------------------------------------
\* findSaddlePoint failed inside TORPEXMagneticField.__init__
TX_SaddleFailed == tx_pc # "idle" /\ sp_pc = "raised"

\* C9: if findSaddlePoint fails while TORPEXMagneticField is constructed,
\* the batch run aborts: createMesh goes on to end with an error,
\* findSeparatrix is never called, no Mesh is constructed and no grid file
\* is written.
C9_FailedSaddleAbortsBatch ==
    TX_SaddleFailed =>
        /\ tx_pc \in {"findSaddlePoint", "print", "aborted"}
        /\ tx_pc # "aborted" => ENABLED (TX_TryExcept \/ TX_Print)
        /\ tx_pc = "aborted" => tx_err = "AttributeError"
        /\ ~tx_findSeparatrixCalled
        /\ tx_separatrix = <<>>
        /\ ~tx_meshBuilt
        /\ ~tx_gridWritten

\* the saddle signature was violated, the constructor only warned, and
\* createMesh ended with an error
C9_Witness ==
    /\ sp_pc = "raised"
    /\ sp_err = "AssertionError"
    /\ tx_warned
    /\ tx_pc = "aborted"
    /\ tx_err = "AttributeError"

\* ------------------------------------------------------------------------
\* Properties of the hypnotoad GUI
\* ------------------------------------------------------------------------
\* the fatal errors of the core: failed assertions, the ValueError of the
\* searches, the NotImplementedError of a zero sample
CoreFatalErrors == {"AssertionError", "ValueError", "NotImplementedError"}

\* C10: when tokamak.read_geqdsk in read_geqdsk or the construction of
\* BoutMesh in run raises one of the fatal errors of the core, the handler
\* catches it, shows an error message and returns; the exception never
\* escapes the handler.
C10_CoreErrorsCaught ==
    (gui_escaped.from \in {"tokamak.read_geqdsk", "BoutMesh"}) =>
        gui_escaped.type \notin CoreFatalErrors

\* ------------------------------------------------------------------------
\* C11: construction of a DCT_2D fails on a non-uniform grid or a
\* mismatching sample shape and succeeds otherwise
\* ------------------------------------------------------------------------
DCT_Len(a) == Cardinality(DOMAIN a)

\* (n-1) times the distance of a[k] from the uniformly spaced grid between
\* a[0] and a[n-1]
DCT_Deviation(a, k) ==
    LET n == DCT_Len(a)
        d == (n - 1) * (a[k] - a[0]) - k * (a[n - 1] - a[0])
    IN  IF d < 0 THEN 0 - d ELSE d

\* a deviates by 1e-13 or more at some index
DCT_Deviates(a) ==
    \E k \in DOMAIN a : DCT_Deviation(a, k) >= Tol * (DCT_Len(a) - 1)
                        /\ DCT_Len(a) > 1

DCT_IsUniform(a) ==
    /\ DCT_Len(a) >= 1
    /\ \A k \in DOMAIN a : DCT_Deviation(a, k) = 0

DCT_ShapeMatches ==
    dct_psiRZ.shape = <<DCT_Len(dct_Zarray), DCT_Len(dct_Rarray)>>

DCT_Constructed == dct_pc \in {"built", "failed"}

DCT_FailsOnBadArguments ==
    (DCT_Deviates(dct_Rarray) \/ DCT_Deviates(dct_Zarray) \/ ~DCT_ShapeMatches)
        => dct_pc = "failed" /\ dct_self = NoField /\ dct_err # "none"

\* C11 as stated: after DCT_2D(Rarray, Zarray, psiRZ) returned or raised,
\* a grid deviating by 1e-13 or more or a mismatching shape has made it
\* raise and left no object, and a uniform grid with a matching shape has
\* produced the object.
C11_ConstructionValidates ==
    DCT_Constructed =>
        /\ DCT_FailsOnBadArguments
        /\ (DCT_IsUniform(dct_Rarray) /\ DCT_IsUniform(dct_Zarray)
               /\ DCT_ShapeMatches)
           => dct_pc = "built" /\ dct_self.built /\ dct_err = "none"

\* C11 amended: as C11, the uniform grids that construct being those of at
\* least two points on each axis; an axis of one point makes the
\* construction raise IndexError.
C11_ConstructionValidatesTwoPoints ==
    DCT_Constructed =>
        /\ DCT_FailsOnBadArguments
        /\ (DCT_IsUniform(dct_Rarray) /\ DCT_IsUniform(dct_Zarray)
               /\ DCT_ShapeMatches
               /\ DCT_Len(dct_Rarray) >= 2 /\ DCT_Len(dct_Zarray) >= 2)
           => dct_pc = "built" /\ dct_self.built /\ dct_err = "none"
        /\ (DCT_IsUniform(dct_Rarray) /\ DCT_IsUniform(dct_Zarray)
               /\ (DCT_Len(dct_Rarray) = 1 \/ DCT_Len(dct_Zarray) = 1))
           => dct_pc = "failed" /\ dct_err = "IndexError"

\* a grid of three points whose middle point is off by exactly 1e-13, with
\* a matching sample shape, was refused
C11_Witness ==
    /\ dct_pc = "failed"
    /\ dct_err = "AssertionError"
    /\ DCT_ShapeMatches
    /\ DCT_Len(dct_Rarray) = 3
    /\ DCT_Deviation(dct_Rarray, 1) = Tol * 2
    /\ DCT_IsUniform(dct_Zarray) /\ DCT_Len(dct_Zarray) >= 2

\* ------------------------------------------------------------------------
\* C12: round trip of the spectral interpolant at the grid nodes
\* ------------------------------------------------------------------------
\* the last evaluation was field(R, Z) on a field built on uniform grids
DCT_NodeEvaluated ==
    /\ dct_pc = "built"
    /\ dct_last.method = "__call__"
    /\ DCT_IsUniform(dct_Rarray) /\ DCT_IsUniform(dct_Zarray)

\* the evaluation at node (i, j) went to index-space position (i, j) and
\* returned psiRZ[j][i]
DCT_RoundTrip ==
    \A i \in DOMAIN dct_Rarray, j \in DOMAIN dct_Zarray :
        (dct_last.R = dct_Rarray[i] /\ dct_last.Z = dct_Zarray[j]) =>
            /\ ~dct_last.iR.nan /\ dct_last.iR.num = i * dct_last.iR.den
            /\ ~dct_last.iZ.nan /\ dct_last.iZ.num = j * dct_last.iZ.den
            /\ SameValue(dct_last.value, Float(dct_psiRZ.data[j][i]))

DCT_Spaced ==
    /\ dct_Rarray[0] # dct_Rarray[DCT_Len(dct_Rarray) - 1]
    /\ dct_Zarray[0] # dct_Zarray[DCT_Len(dct_Zarray) - 1]

DCT_SameQuery ==
    /\ dct_last'.method = dct_last.method
    /\ dct_last'.R = dct_last.R
    /\ dct_last'.Z = dct_last.Z

\* C13: an evaluation call (__call__, ddR or ddZ), after any sequence of
\* such calls, leaves every attribute of the field unchanged, and a call
\* that repeats the arguments of the call before it returns the same value.
C13_ReadOnlyAfterConstruction ==
    [][/\ dct_pc = "built" => dct_self' = dct_self /\ dct_pc' = "built"
       /\ (dct_pc = "built" /\ DCT_SameQuery) => dct_last'.value = dct_last.value
      ]_vars

\* a derivative was evaluated on a spaced grid and is a number
C13_Witness ==
    /\ dct_pc = "built"
    /\ dct_last.method \in {"ddR", "ddZ"}
    /\ DCT_Spaced
    /\ ~dct_last.value.nan
    /\ dct_last.value.pi = 1
    /\ \E j \in DOMAIN dct_last.value.num : dct_last.value.num[j] # 0

\* ------------------------------------------------------------------------
\* Properties of the contours
\* ------------------------------------------------------------------------
CT_N == Len(ct_points)
CT_OldN == Len(ct_old.points)

\* C14: append(p) on a non-empty contour adds exactly one point at the end
\* and exactly one entry to distance, the new last distance is the old last
\* distance plus the Euclidean distance from the old last point to p, and
\* all earlier points and distance entries are unchanged.
C14_AppendExtendsByOne ==
    (ct_last.op = "append" /\ CT_OldN >= 1) =>
        /\ CT_N = CT_OldN + 1
        /\ Len(ct_distance) = Len(ct_old.distance) + 1
        /\ ct_points[CT_N] = ct_last.point
        /\ ct_distance[CT_N] =
               ct_old.distance[CT_OldN]
                   + calc_distance(ct_old.points[CT_OldN], ct_last.point)
        /\ \A i \in 1..CT_OldN :
               /\ ct_points[i] = ct_old.points[i]
               /\ ct_distance[i] = ct_old.distance[i]

\* a point away from the last one was appended to a contour of two points
C14_Witness ==
    /\ ct_last.op = "append"
    /\ CT_OldN = 2
    /\ ct_old.distance[2] > 0
    /\ ct_last.point # ct_old.points[2]
    /\ ct_last.point # ct_old.points[1]

\* C15: reverse() on a contour of n points reverses the point order in
\* place, keeps n, and sets distance_new[i] = distance_old[n-1] -
\* distance_old[n-1-i]; the total length is preserved and distance_new[0]
\* is 0.
C15_ReverseMirrorsDistance ==
    ct_last.op = "reverse" =>
        /\ CT_N = CT_OldN
        /\ Len(ct_distance) = CT_N
        /\ \A i \in 1..CT_N :
               /\ ct_points[i] = ct_old.points[CT_N + 1 - i]
               /\ ct_distance[i] =
                      ct_old.distance[CT_N] - ct_old.distance[CT_N + 1 - i]
        /\ ct_distance[CT_N] = ct_old.distance[CT_N]
        /\ ct_distance[1] = 0

\* a contour of three points with segments of different lengths was
\* reversed
C15_Witness ==
    /\ ct_last.op = "reverse"
    /\ CT_N = 3
    /\ ct_old.distance[2] > 0
    /\ ct_old.distance[3] - ct_old.distance[2] > ct_old.distance[2]

\* C16: in every contour state reachable from construction by append and
\* reverse, distance is as long as the point list, distance[0] = 0 and
\* distance[i] = distance[i-1] + |P[i] - P[i-1]| for i >= 1, so distance
\* is non-decreasing.
C16_DistanceIsArcLength ==
    ct_pc = "ready" =>
        /\ Len(ct_distance) = CT_N
        /\ ct_distance[1] = 0
        /\ \A i \in 2..CT_N :
               /\ ct_distance[i] =
                      ct_distance[i - 1]
                          + calc_distance(ct_points[i], ct_points[i - 1])
               /\ ct_distance[i] >= ct_distance[i - 1]

\* a reversed contour of the largest length with a repeated point
C16_Witness ==
    /\ ct_last.op = "reverse"
    /\ CT_N = MaxPoints
    /\ \E i \in 2..CT_N : ct_distance[i] = ct_distance[i - 1]
    /\ ct_distance[CT_N] > 0

\* the contour c is the contour old refined with the last operation's
\* width and atol: as many points, each on the contour to atol and within
\* the window of the point of old at the same place
CT_IsRefinement(c, old) ==
    /\ Len(c.points) = Len(old.points)
    /\ \A i \in 1..Len(c.points) :
           /\ ct_psi[c.points[i]] - ct_psival <= ct_last.atol
           /\ ct_psival - ct_psi[c.points[i]] <= ct_last.atol
           /\ calc_distance(c.points[i], old.points[i]) <= ct_last.width

\* C17: after a successful refine(width, atol) the contour has the same
\* number of points in the same order, and every point P satisfies
\* |psi(P) - psival| <= atol; getRefined gives the same result as a new
\* contour and leaves the receiver's points unchanged.
C17_RefinePutsPointsOnContour ==
    /\ (ct_last.op = "refine" /\ ct_last.ok) =>
           CT_IsRefinement([points |-> ct_points], ct_old)
    /\ (ct_last.op = "getRefined" /\ ct_last.ok) =>
           /\ CT_IsRefinement(ct_new, ct_old)
           /\ ct_points = ct_old.points
           /\ ct_distance = ct_old.distance
           /\ ct_new \in getRefined(ct_old, ct_psi, ct_psival, ct_last.width,
                                    ct_last.atol)

\* a refine moved a point that was off the contour
C17_Witness ==
    /\ ct_last.op = "refine" /\ ct_last.ok
    /\ ct_last.atol = 0
    /\ CT_N >= 2
    /\ \E i \in 1..CT_N :
           /\ ct_points[i] # ct_old.points[i]
           /\ ct_psi[ct_old.points[i]] # ct_psival


\* ------------------------------------------------------------------------
\* Properties of the iteration of findSaddlePoint
\* ------------------------------------------------------------------------
\* the tolerance t is half of the tolerance u
SP_HalfOf(t, u) == 2 * t.num * u.den = u.num * t.den
\* the tolerances t and u are the same number
SP_SameTol(t, u) == t.num * u.den = u.num * t.den
\* the tolerance t is half of atol
SP_HalfOfAtol(t) == 2 * t.num = sp_atol * t.den

\* C18 as stated: the tolerance passed to the vertical and to the horizontal
\* line search in iteration k+1 is half the tolerance passed in iteration k.
C18_ToleranceHalves ==
    /\ sp_prevVertTol # NoTol => SP_HalfOf(sp_vertCall.atol, sp_prevVertTol)
    /\ sp_prevHorizTol # NoTol =>
           SP_HalfOf(sp_horizCall.atol, sp_prevHorizTol)

\* C18 as amended: every vertical and every horizontal line search of the
\* iteration is passed the tolerance atol/2, so the tolerance of iteration
\* k+1 equals the tolerance of iteration k.
C18_ToleranceIsHalfAtol ==
    /\ sp_vertCall # NoSearch => SP_HalfOfAtol(sp_vertCall.atol)
    /\ sp_horizCall # NoSearch => SP_HalfOfAtol(sp_horizCall.atol)
    /\ sp_prevVertTol # NoTol => SP_SameTol(sp_vertCall.atol, sp_prevVertTol)
    /\ sp_prevHorizTol # NoTol =>
           SP_SameTol(sp_horizCall.atol, sp_prevHorizTol)

\* both searches ran in a second iteration
C18_Witness ==
    /\ sp_count >= 2
    /\ sp_vertCall.iter >= 2
    /\ sp_horizCall.iter >= 2
    /\ sp_prevVertTol # NoTol
    /\ sp_prevHorizTol # NoTol

\* the iteration is between its vertical and its horizontal search
SP_AfterVert == sp_pc = "horiz"
\* the iteration has completed at least one pass
SP_AfterHoriz == sp_pc \in {"while", "return", "returned"} /\ sp_count >= 1

\* C19: in every iteration the vertical search between the bottom and the
\* top point runs first, the left and the right point get its result's Z,
\* the horizontal search runs between these clamped points, and the bottom
\* and the top point get its result's R.  The clamping leaves posLeft.R =
\* Rmin, posRight.R = Rmax, posBottom.Z = Zmin and posTop.Z = Zmax, so from
\* the second iteration on the vertical search runs along the full-height
\* line at the previous horizontal result's R and the horizontal search
\* along the full-width line at the current vertical result's Z.
C19_SearchOrderAndClamping ==
    /\ sp_posLeft # NoPoint => sp_posLeft.R = Box.Rmin
    /\ sp_posRight # NoPoint => sp_posRight.R = Box.Rmax
    /\ sp_posBottom # NoPoint => sp_posBottom.Z = Box.Zmin
    /\ sp_posTop # NoPoint => sp_posTop.Z = Box.Zmax
    /\ SP_AfterVert =>
           /\ sp_vertCall.iter = sp_count
           /\ sp_count < CountCap => sp_horizCall.iter = sp_count - 1
           /\ sp_posLeft.Z = sp_lastVert.Z
           /\ sp_posRight.Z = sp_lastVert.Z
           /\ sp_count >= 2 =>
                  /\ sp_vertCall.pos1 = Point2D(sp_lastHoriz.R, Box.Zmin)
                  /\ sp_vertCall.pos2 = Point2D(sp_lastHoriz.R, Box.Zmax)
    /\ SP_AfterHoriz =>
           /\ sp_vertCall.iter = sp_count
           /\ sp_horizCall.iter = sp_count
           /\ sp_horizCall.pos1 = Point2D(Box.Rmin, sp_lastVert.Z)
           /\ sp_horizCall.pos2 = Point2D(Box.Rmax, sp_lastVert.Z)
           /\ sp_posBottom.R = sp_lastHoriz.R
           /\ sp_posTop.R = sp_lastHoriz.R

\* a second iteration completed whose searches ran along lines other than
\* those of the first iteration
C19_Witness ==
    /\ sp_pc = "while"
    /\ sp_count = 2
    /\ sp_horizCall.iter = 2
    /\ sp_vertCall.pos1 = Point2D(sp_vertCall.pos1.R, Box.Zmin)
    /\ sp_vertCall.pos1.R # Box.Rmin
    /\ sp_horizCall.pos1 = Point2D(Box.Rmin, sp_lastVert.Z)
    /\ sp_lastVert.Z # Box.Zmin

\* C20: the vertical search looks for a maximum exactly when the top and
\* bottom edges were classified as minimum and for a minimum otherwise, the
\* horizontal search looks for a maximum exactly when the left and right
\* edges were classified as minimum, and in every iteration the two searches
\* look for opposite kinds of extremum.
C20_SearchesOppositeExtrema ==
    /\ sp_vertCall # NoSearch =>
           /\ sp_vertCall.method \in {"findMaximum_1d", "findMinimum_1d"}
           /\ sp_vertCall.method = "findMaximum_1d" <=>
                  (sp_minTop /\ sp_minBottom)
           /\ sp_vertCall.method = "findMinimum_1d" <=>
                  (~sp_minTop /\ ~sp_minBottom)
    /\ sp_horizCall # NoSearch =>
           /\ sp_horizCall.method \in {"findMaximum_1d", "findMinimum_1d"}
           /\ sp_horizCall.method = "findMaximum_1d" <=>
                  (sp_minLeft /\ sp_minRight)
           /\ sp_horizCall.method = "findMinimum_1d" <=>
                  (~sp_minLeft /\ ~sp_minRight)
           /\ sp_horizCall.method # sp_vertCall.method

\* an iteration searched for a minimum vertically and a maximum horizontally
C20_Witness ==
    /\ sp_vertCall.method = "findMinimum_1d"
    /\ sp_horizCall.method = "findMaximum_1d"
    /\ sp_horizCall.iter = sp_vertCall.iter
    /\ sp_minLeft /\ ~sp_minTop


\* ------------------------------------------------------------------------
\* Properties of write_grid, read_geqdsk and run of the hypnotoad GUI
\* ------------------------------------------------------------------------
\* C21: in either GUI, when write_grid is invoked while no mesh exists, the
\* handler reports that no mesh was found and stops there: it does not
\* access self.mesh and no exception leaves it.
C21_WriteGridWithoutMesh ==
    /\ (gui_handler = "write_grid" /\ ~gui_has_mesh) =>
           /\ gui_shown = "no mesh found"
           /\ gui_escaped = NotEscaped
    /\ (g2_handler = "write_grid" /\ ~g2_has_mesh) =>
           /\ g2_shown = "No mesh found!"
           /\ g2_escaped = NotEscaped

GUI_RunBuiltMesh ==
    /\ gui_handler = "run"
    /\ gui_has_mesh
    /\ \/ gui_shown = "Done!"
       \/ gui_escaped.from = "calculateRZ"

\* C23: every mesh that run produces is built from an equilibrium object
\* created by the same invocation of run, never from one read earlier.
C23_RunBuildsFromFreshEq ==
    [][GUI_RunBuiltMesh' => (gui_mesh'.eq > gui_created)]_vars

\* C26: in every reachable state the write-grid button is enabled only if a
\* mesh object exists.
C26_ButtonOnlyWithMesh == gui_write_grid_button => gui_has_mesh


\* ------------------------------------------------------------------------
\* Properties of TORPEXMagneticField.findSeparatrix
\* ------------------------------------------------------------------------
\* the legs of equilibrium.separatrix by their keys
TX_InnerLower == tx_separatrix[1]
TX_InnerUpper == tx_separatrix[2]
TX_OuterUpper == tx_separatrix[3]
TX_OuterLower == tx_separatrix[4]

\* the X-point is recorded n times on the leg, at the end of a reversed leg
\* and at the start of a leg that was not reversed
TX_Recorded(leg, reversed, n) ==
    /\ leg.reversed = reversed
    /\ leg.xPointsAtEnd = (IF reversed THEN n ELSE 0)
    /\ leg.xPointsAtStart = (IF reversed THEN 0 ELSE n)

\* C24: after findSeparatrix the X-point is recorded twice on each lower
\* divertor leg and once on each upper divertor leg, at the end of the
\* reversed legs (inner lower, outer upper) and at the start of the others.
C24_XPointTwiceOnLowerLegs ==
    tx_separatrix # <<>> =>
        /\ TX_Recorded(TX_InnerLower, TRUE, 2)
        /\ TX_Recorded(TX_OuterLower, FALSE, 2)
        /\ TX_Recorded(TX_InnerUpper, FALSE, 1)
        /\ TX_Recorded(TX_OuterUpper, TRUE, 1)


\* ------------------------------------------------------------------------
\* Properties of create_tokamak
\* ------------------------------------------------------------------------
\* C25: create_tokamak returns r1d of length nx, z1d of length ny and psi2d
\* of shape [nx, ny] for every geometry it documents, raises ValueError only
\* for a geometry name that is not recognised, and returns the three arrays
\* when called with all default arguments.
C25_DefaultsAreRecognised ==
    tk_pc = "done" =>
        LET geometry == Bind(tk_args, "geometry", DefaultGeometry)
            nx == Bind(tk_args, "nx", DefaultNx)
            ny == Bind(tk_args, "ny", DefaultNy)
        IN  /\ geometry \in Documented =>
                   /\ ~tk_result.raised
                   /\ tk_result.r1d = nx
                   /\ tk_result.z1d = ny
                   /\ tk_result.psi2d = <<nx, ny>>
            /\ tk_result.raised =>
                   /\ tk_result.err = "ValueError"
                   /\ geometry \notin Documented
            /\ tk_args.passed = {} => ~tk_result.raised

\* ------------------------------------------------------------------------
\* Properties of save_options of the hypnotoad GUI
\* ------------------------------------------------------------------------
\* C27: save_options invoked while no file name has been chosen terminates;
\* it shows the save dialog once, writes the options file exactly once if
\* the user picks a name, and writes nothing and returns if the user cancels
\* the dialog.
C27_SaveAsksOnceWritesOnce ==
    sv_unnamed =>
        /\ sv_dialogs <= 1
        /\ sv_writes <= 1
        /\ sv_err = "none"
        /\ sv_pc = "ready" =>
               /\ sv_dialogs = 1
               /\ sv_writes = (IF sv_filename = Cancelled THEN 0 ELSE 1)

\* ------------------------------------------------------------------------
\* Properties of the options form of the hypnotoad2 GUI
\* ------------------------------------------------------------------------
\* C28: when the user changes the widget created by add_options_widget(key,
\* value), self.options[key] becomes the widget's new value and no other
\* entry of self.options is added or changed.
C28_WidgetUpdatesOwnKey ==
    g2_handler = "widget_changed" =>
        /\ g2_options[g2_changed.key] = g2_changed.value
        /\ \A k \in G2_AllKeys \ {g2_changed.key} :
               g2_options[k] = g2_changed.before[k]


\* ------------------------------------------------------------------------
\* The points of findSaddlePoint stay in the search box
\* ------------------------------------------------------------------------
\* the point lies in the search box, or there is no point yet
SP_InBox(p) ==
    p # NoPoint =>
        /\ Box.Rmin <= p.R /\ p.R <= Box.Rmax
        /\ Box.Zmin <= p.Z /\ p.Z <= Box.Zmax

\* C29: whenever findSaddlePoint returns, the returned point lies inside the
\* search box, and so do every intermediate vertical and horizontal estimate
\* and every clamped edge point, each line search returning a point on the
\* segment between its two end points.
C29_PointsStayInBox ==
    /\ SP_InBox(sp_result)
    /\ sp_pc = "returned" => sp_result # NoPoint
    /\ SP_InBox(sp_extremumVert)
    /\ SP_InBox(sp_extremumHoriz)
    /\ SP_InBox(sp_lastVert)
    /\ SP_InBox(sp_lastHoriz)
    /\ SP_InBox(sp_posTop)
    /\ SP_InBox(sp_posBottom)
    /\ SP_InBox(sp_posLeft)
    /\ SP_InBox(sp_posRight)
    /\ SP_InBox(sp_vertCall.pos1) /\ SP_InBox(sp_vertCall.pos2)
    /\ SP_InBox(sp_horizCall.pos1) /\ SP_InBox(sp_horizCall.pos2)

\* the call returned, after searches along clamped lines, a point in the
\* interior of the box
C29_Witness ==
    /\ sp_pc = "returned"
    /\ sp_count >= 1
    /\ sp_lastVert # NoPoint /\ sp_lastHoriz # NoPoint
    /\ sp_posLeft.Z = sp_lastVert.Z
    /\ sp_posTop.R = sp_lastHoriz.R
    /\ Box.Rmin < sp_result.R /\ sp_result.R < Box.Rmax
    /\ Box.Zmin < sp_result.Z /\ sp_result.Z < Box.Zmax

====
